---- MODULE Spec2Model ----
(***************************************************************************)
(* A model of the Boltz batch pipeline of kr_structure_prediction_test:    *)
(*   write_yamls.py   -> job documents (one per experiment row)            *)
(*   run_boltz.py     -> replicates, one external job per replicate,       *)
(*                       boltz_dock_records.csv                            *)
(*   aggregate_job.py -> join, metric flattening, final_summary.csv        *)
(*                                                                         *)
(* File names, column keys and metric keys are sequences of one-character  *)
(* strings, so that the regular expressions and string operations of the   *)
(* source are modelled by what they do on characters.                      *)
(***************************************************************************)
EXTENDS Integers, Sequences, FiniteSets, TLC

VARIABLES
    fn_pc,          \* name functions: "base" -> "named" -> "applied"
    fn_base,        \* the document stem / raw name drawn as input
    fn_name,        \* the file name under study
    fn_src,         \* how fn_name was built: replicate number and extension
    fn_out          \* results of the name functions applied to fn_name

fn_vars == <<fn_pc, fn_base, fn_name, fn_src, fn_out>>

VARIABLES
    input_dir,      \* run_boltz: files of args.input_dir, name -> content
    replicates_dir, \* files of <input_dir>/replicates, name -> content
    args,           \* run_boltz arguments: num_replicates, max_time
    run_pc,         \* "idle" -> "loop" <-> "running" -> "done"
    job_files,      \* the job list of main, in listing order
    job_idx,        \* number of jobs launched so far
    records,        \* the list of CSV records of main
    records_csv,    \* boltz_dock_records.csv: whether written, and its rows
    outcomes,       \* history: how each attempted job ended
    invoked,        \* history: the job files handed to subprocess.run
    predictions,    \* result folders under out_dir, job id -> folder
    out_dir_made    \* whether the directory args.out_dir exists

run_vars == <<input_dir, replicates_dir, args, run_pc, job_files, job_idx,
              records, records_csv, outcomes, invoked, predictions,
              out_dir_made>>

VARIABLES
    yaml_csv,       \* the experiment table with its yaml_file column
    agg_pc,         \* aggregate_job: "start" -> "rows" -> "copy" -> "write" -> "done"
    df_merged,      \* the joined table of aggregate_job.main
    agg_idx,        \* rows of df_merged handled so far
    final_rows,     \* the summary rows accumulated so far
    summary_csv,    \* final_summary.csv: whether written, and its rows
    key_writes,     \* history: which result document wrote which metric key
    copies          \* the copies made into the final_* folders, in order

agg_vars == <<yaml_csv, agg_pc, df_merged, agg_idx, final_rows, summary_csv,
              key_writes, copies>>

VARIABLES
    input_csv,      \* the experiment table given to write_yamls
    enc_pc,         \* write_yamls: "start" -> "rows" -> "done", or "crashed"
    enc_idx,        \* rows of the experiment table handled so far
    yaml_file_names \* the list yaml_file_names of write_yamls.main

enc_vars == <<input_csv, enc_pc, enc_idx, yaml_file_names>>

VARIABLES
    wrap_pc,        \* boltz_wrapper: the stage it is at
    wrap_args       \* boltz_wrapper arguments: num_replicates, max_time

pipe_vars == <<wrap_pc, wrap_args>>

vars == <<fn_vars, run_vars, agg_vars, enc_vars, pipe_vars>>

----------------------------------------------------------------------------
(* Bounds *)

MaxTokens == 3      \* tokens per generated base name
MaxRep == 11        \* largest replicate number used in the name functions
MaxReplicates == 2  \* largest --num_replicates of a run
MaxMinutes == 1     \* largest --max_time (minutes); 0 stands for none
MaxRecords == 2     \* rows of a drawn Run Record table
MaxRows == 2        \* rows of a drawn experiment table
MaxEntityNumber == 10  \* largest entity number of a column group

----------------------------------------------------------------------------
(* Characters and strings *)

NL == "\n"
DigitChars == <<"0", "1", "2", "3", "4", "5", "6", "7", "8", "9">>
Digits == {DigitChars[i] : i \in 1..10}

S_rep == <<"_", "r", "e", "p">>
S_yaml == <<".", "y", "a", "m", "l">>
S_yml == <<".", "y", "m", "l">>

\* a missing cell (pandas NaN / None); no file name equals it
NaN == <<"<NaN>">>
isna(x) == x = NaN

\* a table file: absent, or written with these rows
NoFile == [written |-> FALSE, rows |-> <<>>]
File(rows) == [written |-> TRUE, rows |-> rows]

\* a table file with named columns
NoTable == [written |-> FALSE, cols |-> {}, rows |-> <<>>]
Table(cols, rows) == [written |-> TRUE, cols |-> cols, rows |-> rows]

Max(S) == CHOOSE x \in S : \A y \in S : y <= x
Min(S) == CHOOSE x \in S : \A y \in S : x <= y

\* s[i:] and s[:i] in 1-based positions
From(s, i) == SubSeq(s, i, Len(s))
Upto(s, i) == SubSeq(s, 1, i)

\* pat occurs in s at position i
At(s, i, pat) ==
    /\ i >= 1
    /\ i + Len(pat) - 1 <= Len(s)
    /\ SubSeq(s, i, i + Len(pat) - 1) = pat

endswith(s, suf) == Len(suf) <= Len(s) /\ At(s, Len(s) - Len(suf) + 1, suf)
startswith(s, pre) == At(s, 1, pre)

\* last position of the maximal run of digits starting at i (i - 1: no digit)
DigitRunEnd(s, i) ==
    Max({j \in (i - 1)..Len(s) : \A k \in i..j : s[k] \in Digits})

DigitVal(c) == (CHOOSE d \in 1..10 : DigitChars[d] = c) - 1

\* int(<digits>)
RECURSIVE int(_)
int(ds) ==
    IF ds = <<>> THEN 0
    ELSE 10 * int(Upto(ds, Len(ds) - 1)) + DigitVal(ds[Len(ds)])

\* str(n) of a natural number
RECURSIVE str(_)
str(n) ==
    IF n < 10 THEN <<DigitChars[n + 1]>>
    ELSE str(n \div 10) \o <<DigitChars[(n % 10) + 1]>>

\* positions of the dots of s
DotPositions(s) == {i \in 1..Len(s) : s[i] = "."}

\* os.path.splitext on a name without directory separators: split at the
\* last dot, unless only dots precede it
splitext(p) ==
    IF DotPositions(p) = {} THEN <<p, <<>>>>
    ELSE LET d == Max(DotPositions(p))
         IN  IF \E i \in 1..(d - 1) : p[i] # "."
             THEN <<Upto(p, d - 1), From(p, d)>>
             ELSE <<p, <<>>>>

\* filename.rsplit('.', 1)[0]
rsplit_dot(s) ==
    IF DotPositions(s) = {} THEN s
    ELSE Upto(s, Max(DotPositions(s)) - 1)

\* s.replace(old, '') : every non-overlapping occurrence, left to right
RECURSIVE replace_all(_, _)
replace_all(s, old) ==
    IF Len(s) < Len(old) THEN s
    ELSE IF At(s, 1, old) THEN replace_all(From(s, Len(old) + 1), old)
    ELSE <<s[1]>> \o replace_all(From(s, 2), old)

\* d1.update(d2) on rows, mappings and directories
Merge(d1, d2) ==
    [k \in DOMAIN d1 \cup DOMAIN d2 |-> IF k \in DOMAIN d2 THEN d2[k] ELSE d1[k]]

\* f.endswith(('.yaml', '.yml'))
is_yaml_name(f) == endswith(f, S_yaml) \/ endswith(f, S_yml)

----------------------------------------------------------------------------
(* Column names, file-name parts and result documents *)

K_filename == <<"f", "i", "l", "e", "n", "a", "m", "e">>
K_replicate == <<"r", "e", "p", "l", "i", "c", "a", "t", "e">>
K_processing_time_sec ==
    <<"p", "r", "o", "c", "e", "s", "s", "i", "n", "g", "_", "t", "i", "m",
      "e", "_", "s", "e", "c">>
K_base_name == <<"b", "a", "s", "e", "_", "n", "a", "m", "e">>
K_yaml_file == <<"y", "a", "m", "l", "_", "f", "i", "l", "e">>
K_foldname == <<"f", "o", "l", "d", "n", "a", "m", "e">>
K_chains_ptm == <<"c", "h", "a", "i", "n", "s", "_", "p", "t", "m">>
K_pair_chains_iptm ==
    <<"p", "a", "i", "r", "_", "c", "h", "a", "i", "n", "s", "_", "i", "p",
      "t", "m">>
S_model == <<"_", "m", "o", "d", "e", "l", "_">>
S_json == <<".", "j", "s", "o", "n">>
S_confidence == <<"c", "o", "n", "f", "i", "d", "e", "n", "c", "e", "_">>
S_affinity == <<"a", "f", "f", "i", "n", "i", "t", "y", "_">>
S_pae == <<"p", "a", "e", "_">>
S_plddt == <<"p", "l", "d", "d", "t", "_">>
S_pde == <<"p", "d", "e", "_">>
S_pre_affinity ==
    <<"p", "r", "e", "_", "a", "f", "f", "i", "n", "i", "t", "y", "_">>
S_pdb == <<".", "p", "d", "b">>
S_npz == <<".", "n", "p", "z">>
S_cif == <<".", "c", "i", "f">>
K_affinity_pred_value ==
    <<"a", "f", "f", "i", "n", "i", "t", "y", "_", "p", "r", "e", "d", "_",
      "v", "a", "l", "u", "e">>
K_confidence_score ==
    <<"c", "o", "n", "f", "i", "d", "e", "n", "c", "e", "_", "s", "c", "o",
      "r", "e">>
K_ptm == <<"p", "t", "m">>
K_iptm == <<"i", "p", "t", "m">>
K_ligand_iptm == <<"l", "i", "g", "a", "n", "d", "_", "i", "p", "t", "m">>
K_protein_iptm ==
    <<"p", "r", "o", "t", "e", "i", "n", "_", "i", "p", "t", "m">>
K_complex_plddt ==
    <<"c", "o", "m", "p", "l", "e", "x", "_", "p", "l", "d", "d", "t">>
K_complex_iplddt ==
    <<"c", "o", "m", "p", "l", "e", "x", "_", "i", "p", "l", "d", "d", "t">>
K_complex_pde == <<"c", "o", "m", "p", "l", "e", "x", "_", "p", "d", "e">>
K_complex_ipde ==
    <<"c", "o", "m", "p", "l", "e", "x", "_", "i", "p", "d", "e">>


\* JSON values: a scalar, a mapping, or a document that does not parse
Scalar(v) == [kind |-> "scalar", val |-> <<v>>, items |-> <<>>]
Dict(f) == [kind |-> "dict", val |-> <<>>, items |-> f]
Malformed == [kind |-> "malformed", val |-> <<>>, items |-> <<>>]
Binary == [kind |-> "binary", val |-> <<>>, items |-> <<>>]

\* the result documents of a job
\* {"ptm": 0.8, "chains_ptm": {"A": 0.9}}
ConfDoc1 ==
    Dict((K_ptm :> Scalar("0.8"))
            @@ (K_chains_ptm :> Dict(<<"A">> :> Scalar("0.9"))))

\* {"ptm": 0.7, "iptm": 0.6, "pair_chains_iptm": {"A": {"B": 0.5}},
\*  "chains_ptm": 0.3, "note": 1}
ConfDoc2 ==
    Dict((K_ptm :> Scalar("0.7"))
            @@ (K_iptm :> Scalar("0.6"))
            @@ (K_pair_chains_iptm :> Dict(<<"A">> :> Dict(<<"B">> :> Scalar("0.5"))))
            @@ (K_chains_ptm :> Scalar("0.3"))
            @@ (<<"n", "o", "t", "e">> :> Scalar("1")))

\* {"affinity_pred_value": 1.5}
AffDoc1 == Dict(K_affinity_pred_value :> Scalar("1.5"))

\* {"affinity_pred_value": 1.5, "ptm_model_0": 0.1, "foldname": "z"}
AffDoc2 ==
    Dict((K_affinity_pred_value :> Scalar("1.5"))
            @@ (K_ptm \o S_model \o <<"0">> :> Scalar("0.1"))
            @@ (K_foldname :> Scalar("z")))

confidence_name(job_id, tail) == S_confidence \o job_id \o S_model \o tail \o S_json
affinity_name(job_id) == S_affinity \o job_id \o S_json

\* what the external tool writes for a document of stem job_id with the
\* defaults of run_boltz (one diffusion sample, mmcif, full pae)
tool_output(job_id) ==
    (confidence_name(job_id, <<"0">>) :> ConfDoc1)
        @@ (job_id \o S_model \o <<"0">> \o S_cif :> Binary)
        @@ (S_pae \o job_id \o S_model \o <<"0">> \o S_npz :> Binary)

----------------------------------------------------------------------------
(* run_boltz.py: replicate naming and replicate number *)

\* f"{base}_rep{rep}{ext}" of duplicate_yaml_files
new_filename(file, rep) ==
    LET base == splitext(file)[1]
        ext == splitext(file)[2]
    IN  base \o S_rep \o str(rep) \o ext

\* positions where the pattern _rep(\d+) matches
RepMatches(filename) ==
    {i \in 1..Len(filename) :
        At(filename, i, S_rep) /\ DigitRunEnd(filename, i + 4) >= i + 4}

\* re.search(r"_rep(\d+)", filename): the leftmost match, digits greedy
extract_replicate_number(filename) ==
    IF RepMatches(filename) = {} THEN 1
    ELSE LET i == Min(RepMatches(filename))
         IN  int(SubSeq(filename, i + 4, DigitRunEnd(filename, i + 4)))

----------------------------------------------------------------------------
(* aggregate_job.py: base identifiers and job identifier *)

\* $ of a regular expression: at the end, or just before a final line break
AtDollar(s, i) == i = Len(s) \/ (i = Len(s) - 1 /\ s[Len(s)] = NL)

\* lengths of group 1 for which ^(.*)_rep\d+\.yaml$ matches; . is any
\* character but a line break
BaseMatches(filename) ==
    {i \in 0..Len(filename) :
        /\ \A k \in 1..i : filename[k] # NL
        /\ At(filename, i + 1, S_rep)
        /\ LET j == DigitRunEnd(filename, i + 5)
           IN  /\ j >= i + 5
               /\ At(filename, j + 1, S_yaml)
               /\ AtDollar(filename, j + 5)}

\* extract_base without the replicate pattern: only the fallback
extract_base_StripOnly(filename) ==
    IF isna(filename) THEN NaN ELSE rsplit_dot(filename)

\* extract_base of aggregate_job.main; (.*) is greedy
extract_base(filename) ==
    IF isna(filename) THEN NaN
    ELSE IF BaseMatches(filename) # {}
         THEN Upto(filename, Max(BaseMatches(filename)))
         ELSE rsplit_dot(filename)

\* str.replace(r'\.yaml$', '', regex=True) with any name ending in a dot
\* segment taken for a document name
yaml_base_name_AnyExt(yaml_file) ==
    IF isna(yaml_file) THEN NaN ELSE rsplit_dot(yaml_file)

\* df_yaml['yaml_file'].str.replace(r'\.yaml$', '', regex=True)
yaml_base_name(yaml_file) ==
    IF isna(yaml_file) THEN NaN
    ELSE IF endswith(yaml_file, S_yaml)
         THEN Upto(yaml_file, Len(yaml_file) - 5)
    ELSE IF endswith(yaml_file, S_yaml \o <<NL>>)
         THEN Upto(yaml_file, Len(yaml_file) - 6) \o <<NL>>
    ELSE yaml_file

\* row['filename'].replace('.yaml', '')
job_id_of(filename) == replace_all(filename, S_yaml)

----------------------------------------------------------------------------
(* run_boltz.py: the Replicator, the job loop and the record table *)

EmptyDir == <<>>
Files(dir) == DOMAIN dir

\* a directory as a function from the names of a set of cells
DirOf(cells) == [n \in {c[1] : c \in cells} |-> (CHOOSE c \in cells : c[1] = n)[2]]

\* the listing [f for f in os.listdir(d) if f.endswith(('.yaml', '.yml'))]
yaml_files(dir) == {f \in Files(dir) : is_yaml_name(f)}

\* the pairs (file, rep) whose copy is named g
Writers(dir, num_replicates, g) ==
    {w \in yaml_files(dir) \X (1..num_replicates) : new_filename(w[1], w[2]) = g}

ReplicaNames(dir, num_replicates) ==
    {new_filename(f, rep) : f \in yaml_files(dir), rep \in 1..num_replicates}

\* duplicate_yaml_files(input_dir, num_replicates): the replicates folder
\* after the call; files already there stay unless a copy overwrites them
duplicate_yaml_files(dir, reps, num_replicates) ==
    [g \in Files(reps) \cup ReplicaNames(dir, num_replicates) |->
        IF g \in ReplicaNames(dir, num_replicates)
        THEN dir[(CHOOSE w \in Writers(dir, num_replicates, g) : TRUE)[1]]
        ELSE reps[g]]

\* os.listdir gives the names in an order of its own: one order or its reverse
RECURSIVE SomeOrder(_)
SomeOrder(S) ==
    IF S = {} THEN <<>>
    ELSE LET x == CHOOSE x \in S : TRUE IN <<x>> \o SomeOrder(S \ {x})

Reverse(s) == [i \in 1..Len(s) |-> s[Len(s) + 1 - i]]
Listings(S) == {SomeOrder(S), Reverse(SomeOrder(S))}

\* measured wall-clock times of a job, in milliseconds
ElapsedMs == {0, 4, 6, 14}

\* how long after the timeout the TimeoutExpired handler reads the clock
OvershootMs == {7, 30}

\* round(elapsed, 2), from milliseconds to hundredths of a second
round2(ms) == (ms + 5) \div 10

\* args.max_time * 60, in milliseconds
timeout_ms(max_time) == max_time * 60 * 1000

\* the elapsed time main keeps when subprocess.TimeoutExpired is caught
timeout_elapsed_Measured(max_time, measured) == measured

timeout_elapsed(max_time, measured) ==
    IF max_time # 0 THEN timeout_ms(max_time) ELSE measured

\* the record main appends for a job
record_of(job_file, elapsed_ms) ==
    [filename |-> job_file,
     replicate |-> extract_replicate_number(job_file),
     processing_time_sec |-> round2(elapsed_ms)]

\* the external tool names its result folder by the stem of the document
stem_of(job_file) == splitext(job_file)[1]

RunOff ==
    /\ input_dir = EmptyDir
    /\ replicates_dir = EmptyDir
    /\ args = [num_replicates |-> 0, max_time |-> 0]
    /\ run_pc = "off"
    /\ job_files = <<>>
    /\ job_idx = 0
    /\ records = <<>>
    /\ records_csv = NoFile
    /\ outcomes = <<>>
    /\ invoked = <<>>
    /\ predictions = EmptyDir

RunIdle == RunOff /\ out_dir_made = FALSE

\* main, lines 145-158: parse the arguments, replicate, list the jobs
RunBegin(n, t) ==
    /\ run_pc = "idle"
    /\ args' = [num_replicates |-> n, max_time |-> t]
    /\ replicates_dir' = duplicate_yaml_files(input_dir, replicates_dir, n)
    /\ job_files' \in Listings(yaml_files(replicates_dir'))
    /\ job_idx' = 0
    /\ records' = <<>>
    /\ outcomes' = <<>>
    /\ invoked' = <<>>
    /\ run_pc' = "loop"
    /\ UNCHANGED <<input_dir, records_csv, predictions, out_dir_made>>

\* the next job handed to subprocess.run while the last one has not returned
JobLaunch_Overlap ==
    /\ run_pc \in {"loop", "running"}
    /\ job_idx < Len(job_files)
    /\ job_idx' = job_idx + 1
    /\ invoked' = Append(invoked, job_files[job_idx + 1])
    /\ run_pc' = "running"
    /\ UNCHANGED <<input_dir, replicates_dir, args, job_files, records,
                   records_csv, outcomes, predictions, out_dir_made>>

\* main, lines 161-176: the next job is handed to subprocess.run
JobLaunch ==
    /\ run_pc = "loop"
    /\ job_idx < Len(job_files)
    /\ job_idx' = job_idx + 1
    /\ invoked' = Append(invoked, job_files[job_idx + 1])
    /\ run_pc' = "running"
    /\ UNCHANGED <<input_dir, replicates_dir, args, job_files, records,
                   records_csv, outcomes, predictions, out_dir_made>>

JobEnds(outcome, elapsed_ms) ==
    /\ records' = Append(records, record_of(job_files[job_idx], elapsed_ms))
    /\ outcomes' = Append(outcomes, outcome)
    /\ run_pc' = "loop"
    /\ UNCHANGED <<input_dir, replicates_dir, args, job_files, job_idx,
                   records_csv, invoked>>

\* a failing job whose CalledProcessError is not caught: main ends there
JobFails_Abort ==
    /\ run_pc = "running"
    /\ outcomes' = Append(outcomes, "failure")
    /\ run_pc' = "aborted"
    /\ UNCHANGED <<input_dir, replicates_dir, args, job_files, job_idx,
                   records, records_csv, invoked, predictions,
                   out_dir_made>>

\* a timed-out job that moves on to the next file without a record
JobTimesOut_NoRecord ==
    /\ run_pc = "running"
    /\ args.max_time # 0
    /\ outcomes' = Append(outcomes, "timeout")
    /\ run_pc' = "loop"
    /\ UNCHANGED <<input_dir, replicates_dir, args, job_files, job_idx,
                   records, records_csv, invoked, predictions,
                   out_dir_made>>

\* lines 174-177: the tool exits with status zero
JobSucceeds ==
    /\ run_pc = "running"
    /\ \E ms \in ElapsedMs : JobEnds("success", ms)
    /\ predictions' = Merge(predictions,
            stem_of(job_files[job_idx]) :> tool_output(stem_of(job_files[job_idx])))
    /\ out_dir_made' = TRUE

\* lines 181-183: subprocess.CalledProcessError; the tool may have created
\* its output directory before it failed
JobFails ==
    /\ run_pc = "running"
    /\ \E ms \in ElapsedMs : JobEnds("failure", ms)
    /\ out_dir_made' \in {out_dir_made, TRUE}
    /\ UNCHANGED predictions

\* lines 178-180: subprocess.TimeoutExpired, raised only with a timeout set
JobTimesOut ==
    /\ run_pc = "running"
    /\ args.max_time # 0
    /\ \E late \in OvershootMs :
        JobEnds("timeout",
                timeout_elapsed(args.max_time, timeout_ms(args.max_time) + late))
    /\ out_dir_made' \in {out_dir_made, TRUE}
    /\ UNCHANGED predictions

\* lines 192-199: the record table is written after the loop
\* open(csv_filepath, 'w') raises FileNotFoundError when out_dir is missing:
\* main neither creates it nor catches the error
RunPersist ==
    /\ run_pc = "loop"
    /\ job_idx = Len(job_files)
    /\ IF out_dir_made
       THEN /\ records_csv' = File(records)
            /\ run_pc' = "done"
       ELSE /\ run_pc' = "crashed"
            /\ UNCHANGED records_csv
    /\ UNCHANGED <<input_dir, replicates_dir, args, job_files, job_idx,
                   records, outcomes, invoked, predictions, out_dir_made>>

\* documents and another file found in the input directory
InputPool == {<<"a">> \o S_yaml, <<"b">> \o S_yml, <<"n", ".", "t", "x", "t">>}
Contents == {"v1", "v2"}

\* a replicate left in the replicates folder by an earlier run
StaleReplica == <<<<"a">> \o S_rep \o <<"3">> \o S_yaml, "v1">>

RunStart ==
    /\ \E S \in SUBSET InputPool : input_dir = [f \in S |-> "v1"]
    /\ replicates_dir \in {EmptyDir, DirOf({StaleReplica})}
    /\ args = [num_replicates |-> 0, max_time |-> 0]
    /\ run_pc = "idle"
    /\ job_files = <<>>
    /\ job_idx = 0
    /\ records = <<>>
    /\ records_csv = NoFile
    /\ outcomes = <<>>
    /\ invoked = <<>>
    /\ predictions = EmptyDir
    /\ out_dir_made \in BOOLEAN

----------------------------------------------------------------------------
(* aggregate_job.py: tables, result documents, metric flattening *)

\* top_keys of parse_confidence_json
TopKeys ==
    {K_confidence_score, K_ptm, K_iptm, K_ligand_iptm, K_protein_iptm,
     K_complex_plddt, K_complex_iplddt, K_complex_pde, K_complex_ipde}

\* a table cell holding a number
cell(n) == str(n)

\* pd.read_csv(args.boltz_csv): one row per record, by column name
boltz_row(rec) ==
    (K_filename :> rec.filename)
        @@ (K_replicate :> cell(rec.replicate))
        @@ (K_processing_time_sec :> cell(rec.processing_time_sec))

\* df_boltz with its base_name column (line 82)
df_boltz_of(csv) ==
    [i \in 1..Len(csv) |->
        boltz_row(csv[i]) @@ (K_base_name :> extract_base(csv[i].filename))]

\* df_yaml with its base_name column (line 75)
df_yaml_of(table) ==
    [i \in 1..Len(table.rows) |->
        table.rows[i] @@ (K_base_name :> yaml_base_name(table.rows[i][K_yaml_file]))]

\* pd.merge(df_boltz, df_yaml, on='base_name') with the default how='inner'
RECURSIVE merge_inner(_, _, _)
merge_inner(left, right, cols) ==
    IF left = <<>> THEN <<>>
    ELSE LET l == Head(left)
             Match(r) == r[K_base_name] = l[K_base_name]
             hits == SelectSeq(right, Match)
         IN  [j \in 1..Len(hits) |-> Merge(hits[j], l)]
                \o merge_inner(Tail(left), right, cols)

\* pd.merge(df_boltz, df_yaml, how='left', on='base_name'): the left rows in
\* order, each once per right row with its key (a null key meets a null
\* key), or once with empty right columns
RECURSIVE merge_left(_, _, _)
merge_left(left, right, cols) ==
    IF left = <<>> THEN <<>>
    ELSE LET l == Head(left)
             Match(r) == r[K_base_name] = l[K_base_name]
             hits == SelectSeq(right, Match)
             rows == IF hits = <<>>
                     THEN <<Merge([k \in cols |-> NaN], l)>>
                     ELSE [j \in 1..Len(hits) |-> Merge(hits[j], l)]
         IN  rows \o merge_left(Tail(left), right, cols)

\* pred_folder.glob(f"{prefix}{job_id}{middle}*{suffix}")
glob(folder, prefix, suffix) ==
    {f \in DOMAIN folder :
        /\ Len(f) >= Len(prefix) + Len(suffix)
        /\ startswith(f, prefix)
        /\ endswith(f, suffix)}

\* re.search(r'_model_(\d+)\.json$', name): group 1, or "?"
ModelMatches(name) ==
    {i \in 1..Len(name) :
        /\ At(name, i, S_model)
        /\ LET j == DigitRunEnd(name, i + 7)
           IN  /\ j >= i + 7
               /\ At(name, j + 1, S_json)
               /\ AtDollar(name, j + 5)}

model_idx(name) ==
    IF ModelMatches(name) = {} THEN <<"?">>
    ELSE LET i == Min(ModelMatches(name))
         IN  SubSeq(name, i + 7, DigitRunEnd(name, i + 7))

\* the nested mapping under key of a confidence document, if it is one
SubDict(data, key) ==
    IF key \in DOMAIN data /\ data[key].kind = "dict" THEN data[key].items
    ELSE <<>>

chain_key(chain) == K_chains_ptm \o <<"_">> \o chain
pair_key(chain_i, chain_j) ==
    K_pair_chains_iptm \o <<"_">> \o chain_i \o <<"_">> \o chain_j

\* parse_confidence_json on a document that parses: the flattened metrics
parse_confidence_json(doc) ==
    LET data == doc.items
        chains == SubDict(data, K_chains_ptm)
        pairs == SubDict(data, K_pair_chains_iptm)
        pair_ids == UNION {{<<ci, cj>> : cj \in DOMAIN SubDict(pairs, ci)} :
                            ci \in DOMAIN pairs}
        keys == (TopKeys \cap DOMAIN data)
                    \cup {chain_key(ch) : ch \in DOMAIN chains}
                    \cup {pair_key(pr[1], pr[2]) : pr \in pair_ids}
    IN  [k \in keys |->
            IF \E pr \in pair_ids : pair_key(pr[1], pr[2]) = k
            THEN LET pr == CHOOSE pr \in pair_ids : pair_key(pr[1], pr[2]) = k
                 IN  pairs[pr[1]].items[pr[2]].val
            ELSE IF \E ch \in DOMAIN chains : chain_key(ch) = k
            THEN chains[CHOOSE ch \in DOMAIN chains : chain_key(ch) = k].val
            ELSE data[k].val]

\* parse_affinity_json: the document as it is, or {} when it does not parse
parse_affinity_json(doc) ==
    IF doc.kind = "dict" THEN [k \in DOMAIN doc.items |-> doc.items[k].val]
    ELSE <<>>

\* lines 116-118 for one confidence document: its keys with the model suffix
suffixed(metrics, idx) ==
    LET new_key(k) == k \o S_model \o idx
    IN  [nk \in {new_key(k) : k \in DOMAIN metrics} |->
            metrics[CHOOSE k \in DOMAIN metrics : new_key(k) = nk]]

\* lines 111-118: json_metrics_all after the documents in glob order
RECURSIVE collect_metrics(_, _, _)
collect_metrics(folder, files, acc) ==
    IF files = <<>> THEN acc
    ELSE collect_metrics(folder, Tail(files),
            Merge(acc, suffixed(parse_confidence_json(folder[Head(files)]),
                                model_idx(Head(files)))))

confidence_files(folder, job_id) ==
    glob(folder, S_confidence \o job_id \o S_model, S_json)

\* the metric keys each result document of the folder writes into the row
\* (lines 116-118 and 129)
row_writes(folder, job_id) ==
    UNION {{<<job_id, k, f>> :
                k \in DOMAIN suffixed(parse_confidence_json(folder[f]), model_idx(f))} :
            f \in confidence_files(folder, job_id)}
    \cup (IF affinity_name(job_id) \in DOMAIN folder
          THEN {<<job_id, k, affinity_name(job_id)>> :
                    k \in DOMAIN parse_affinity_json(folder[affinity_name(job_id)])}
          ELSE {})

AggIdle ==
    /\ yaml_csv = NoTable
    /\ agg_pc = "off"
    /\ df_merged = <<>>
    /\ agg_idx = 0
    /\ final_rows = <<>>
    /\ summary_csv = NoFile
    /\ key_writes = {}
    /\ copies = <<>>

\* a column read with no text in any of its cells is numeric, and .str on
\* it raises (line 75)
no_str_accessor(table, col) ==
    /\ table.rows # <<>>
    /\ \A i \in 1..Len(table.rows) : isna(table.rows[i][col])

\* main, lines 69-85: read both tables, derive base_name, join
AggLoad ==
    /\ agg_pc = "start"
    /\ IF \/ ~yaml_csv.written
          \/ ~records_csv.written
          \/ K_yaml_file \notin yaml_csv.cols
          \/ no_str_accessor(yaml_csv, K_yaml_file)
       THEN /\ agg_pc' = "crashed"
            /\ UNCHANGED df_merged
       ELSE /\ df_merged' = merge_left(df_boltz_of(records_csv.rows),
                                       df_yaml_of(yaml_csv), yaml_csv.cols)
            /\ agg_pc' = "rows"
    /\ UNCHANGED <<yaml_csv, agg_idx, final_rows, summary_csv, key_writes, copies>>

\* main, lines 91-130, for the next row of df_merged
AggRow ==
    /\ agg_pc = "rows"
    /\ agg_idx < Len(df_merged)
    /\ agg_idx' = agg_idx + 1
    /\ LET row == df_merged[agg_idx + 1]
           job_id == job_id_of(row[K_filename])
           folder == predictions[job_id]
           confs == confidence_files(folder, job_id)
           affinity_metrics ==
                IF affinity_name(job_id) \in DOMAIN folder
                THEN parse_affinity_json(folder[affinity_name(job_id)])
                ELSE <<>>
       IN  IF K_filename \notin DOMAIN row \/ isna(row[K_filename])
           THEN UNCHANGED <<agg_pc, final_rows, key_writes>>
           ELSE IF job_id \notin DOMAIN predictions
           THEN /\ final_rows' = Append(final_rows, row)
                /\ UNCHANGED <<agg_pc, key_writes>>
           ELSE IF \E f \in confs : folder[f].kind # "dict"
           THEN /\ agg_pc' = "crashed"
                /\ UNCHANGED <<final_rows, key_writes>>
           ELSE \E files \in Listings(confs) :
                /\ final_rows' = Append(final_rows,
                        Merge(Merge(row, collect_metrics(folder, files, <<>>)),
                              affinity_metrics))
                /\ key_writes' = key_writes \cup row_writes(folder, job_id)
                /\ UNCHANGED agg_pc
    /\ UNCHANGED <<yaml_csv, df_merged, summary_csv, copies>>

\* main, line 133: the loop is over
AggRowsDone ==
    /\ agg_pc = "rows"
    /\ agg_idx = Len(df_merged)
    /\ agg_pc' = "copy"
    /\ UNCHANGED <<yaml_csv, df_merged, agg_idx, final_rows, summary_csv,
                   key_writes, copies>>

\* df_merged['filename'].dropna() without unique(): every row's file name
RECURSIVE unique_NoDedup(_)
unique_NoDedup(seq) ==
    IF seq = <<>> THEN <<>>
    ELSE LET init == unique_NoDedup(Upto(seq, Len(seq) - 1))
             x == seq[Len(seq)]
         IN  IF isna(x) THEN init ELSE Append(init, x)

\* df_merged['filename'].dropna().unique(): first occurrences, in order
RECURSIVE unique(_)
unique(seq) ==
    IF seq = <<>> THEN <<>>
    ELSE LET init == unique(Upto(seq, Len(seq) - 1))
             x == seq[Len(seq)]
         IN  IF isna(x) \/ \E i \in 1..Len(init) : init[i] = x
             THEN init ELSE Append(init, x)

\* the seven globs of lines 161-169 with their destination folders
Buckets(job_id) ==
    <<[dir |-> "final_pdbs", prefix |-> job_id \o S_model, suffix |-> S_pdb],
      [dir |-> "final_pae", prefix |-> S_pae \o job_id \o S_model, suffix |-> S_npz],
      [dir |-> "final_plddt", prefix |-> S_plddt \o job_id \o S_model, suffix |-> S_npz],
      [dir |-> "final_confidence_json",
       prefix |-> S_confidence \o job_id \o S_model, suffix |-> S_json],
      [dir |-> "final_affinity_json", prefix |-> affinity_name(job_id), suffix |-> <<>>],
      [dir |-> "final_pre_affinity",
       prefix |-> S_pre_affinity \o job_id \o S_npz, suffix |-> <<>>],
      [dir |-> "final_pde", prefix |-> S_pde \o job_id \o S_model, suffix |-> S_npz]>>

\* a glob without wildcard names one file
bucket_files(folder, b) ==
    IF b.suffix = <<>> THEN {f \in DOMAIN folder : f = b.prefix}
    ELSE glob(folder, b.prefix, b.suffix)

RECURSIVE copies_of_job(_, _, _)
copies_of_job(job_yaml, folder, buckets) ==
    IF buckets = <<>> THEN <<>>
    ELSE LET b == Head(buckets)
             files == SomeOrder(bucket_files(folder, b))
         IN  [i \in 1..Len(files) |->
                [job |-> job_yaml, dir |-> b.dir, file |-> files[i]]]
                \o copies_of_job(job_yaml, folder, Tail(buckets))

RECURSIVE copies_of_jobs(_, _)
copies_of_jobs(job_yamls, preds) ==
    IF job_yamls = <<>> THEN <<>>
    ELSE LET job_id == job_id_of(Head(job_yamls))
         IN  (IF job_id \in DOMAIN preds
              THEN copies_of_job(Head(job_yamls), preds[job_id], Buckets(job_id))
              ELSE <<>>)
                \o copies_of_jobs(Tail(job_yamls), preds)

\* main, lines 135-169: the result files of every unique job are copied
AggCopy ==
    /\ agg_pc = "copy"
    /\ copies' = copies_of_jobs(
                    unique([i \in 1..Len(df_merged) |-> df_merged[i][K_filename]]),
                    predictions)
    /\ agg_pc' = "write"
    /\ UNCHANGED <<yaml_csv, df_merged, agg_idx, final_rows, summary_csv, key_writes>>

\* main, lines 171-173: the summary table is written
AggWrite ==
    /\ agg_pc = "write"
    /\ summary_csv' = File(final_rows)
    /\ agg_pc' = "done"
    /\ UNCHANGED <<yaml_csv, df_merged, agg_idx, final_rows, key_writes, copies>>

----------------------------------------------------------------------------
(* Tables and result folders drawn as inputs of aggregate_job.py *)

SeqsUpTo(S, n) == UNION {[1..k -> S] : k \in 0..n}

N_a == <<"a">>
N_b == <<"b">>
N_a_rep1 == N_a \o S_rep \o <<"1">>
N_a_rep2 == N_a \o S_rep \o <<"2">>
N_b_rep1 == N_b \o S_rep \o <<"1">>

record_in_table(filename) ==
    [filename |-> filename,
     replicate |-> extract_replicate_number(filename),
     processing_time_sec |-> 1]

\* Run Records: replicates of a and b, an unreplicated .yml, a missing name
RunRecPool ==
    {record_in_table(f) :
        f \in {N_a_rep1 \o S_yaml, N_a_rep2 \o S_yaml, N_b_rep1 \o S_yaml,
               <<"c">> \o S_yml, NaN}}

exp_row(yaml_file, foldname) == (K_yaml_file :> yaml_file) @@ (K_foldname :> foldname)

\* experiment rows: two for a.yaml, one for b.yaml, one without file name
ExpRowPool ==
    {exp_row(N_a \o S_yaml, N_a), exp_row(N_a \o S_yaml, <<"a", "2">>),
     exp_row(N_b \o S_yaml, N_b), exp_row(NaN, <<"n">>)}

\* result folders: as the tool writes them, with an affinity document
FolderNormal(job_id) ==
    tool_output(job_id)
        @@ (confidence_name(job_id, <<"1">>) :> ConfDoc2)
        @@ (affinity_name(job_id) :> AffDoc1)
        @@ (job_id \o S_model \o <<"0">> \o S_pdb :> Binary)

\* confidence documents whose names carry no model number
FolderUnnumbered(job_id) ==
    (confidence_name(job_id, <<"x">>) :> ConfDoc1)
        @@ (confidence_name(job_id, <<"y">>) :> ConfDoc2)

\* an affinity document with a key of the form <metric>_model_<n>
FolderAffinityKey(job_id) ==
    (confidence_name(job_id, <<"0">>) :> ConfDoc1)
        @@ (affinity_name(job_id) :> AffDoc2)

\* documents that do not parse
FolderBadAffinity(job_id) ==
    (confidence_name(job_id, <<"0">>) :> ConfDoc1)
        @@ (affinity_name(job_id) :> Malformed)

FolderBadConfidence(job_id) ==
    (confidence_name(job_id, <<"0">>) :> Malformed)

PredChoices ==
    {EmptyDir,
     N_a_rep1 :> FolderNormal(N_a_rep1),
     (N_a_rep1 :> FolderNormal(N_a_rep1)) @@ (N_a_rep2 :> FolderUnnumbered(N_a_rep2)),
     (N_a_rep1 :> FolderAffinityKey(N_a_rep1)) @@ (N_b_rep1 :> FolderBadAffinity(N_b_rep1)),
     (N_a_rep1 :> FolderNormal(N_a_rep1)) @@ (N_a_rep2 :> FolderBadConfidence(N_a_rep2))}

AggStart ==
    /\ yaml_csv \in {Table({K_yaml_file, K_foldname}, rows) :
                        rows \in SeqsUpTo(ExpRowPool, MaxRows)}
                    \cup {Table({K_foldname}, <<K_foldname :> N_a>>)}
    /\ agg_pc = "start"
    /\ df_merged = <<>>
    /\ agg_idx = 0
    /\ final_rows = <<>>
    /\ summary_csv = NoFile
    /\ key_writes = {}
    /\ copies = <<>>

\* the Run Record table and the result folders the Aggregator finds
AggInputs ==
    /\ input_dir = EmptyDir
    /\ replicates_dir = EmptyDir
    /\ args = [num_replicates |-> 0, max_time |-> 0]
    /\ run_pc = "off"
    /\ job_files = <<>>
    /\ job_idx = 0
    /\ records = <<>>
    /\ records_csv \in {NoFile} \cup {File(r) : r \in SeqsUpTo(RunRecPool, MaxRecords)}
    /\ outcomes = <<>>
    /\ invoked = <<>>
    /\ predictions \in PredChoices
    /\ out_dir_made = TRUE

----------------------------------------------------------------------------
(* The Replicator called again and again on one input directory that is   *)
(* edited between the calls                                                *)

\* duplicate_yaml_files(input_dir, n)
Replicate ==
    /\ run_pc \in {"edited", "replicated"}
    /\ \E n \in 1..MaxReplicates :
        /\ args' = [args EXCEPT !.num_replicates = n]
        /\ replicates_dir' = duplicate_yaml_files(input_dir, replicates_dir, n)
    /\ run_pc' = "replicated"
    /\ UNCHANGED <<input_dir, job_files, job_idx, records, records_csv,
                   outcomes, invoked, predictions, out_dir_made>>

DirEdit(dir) ==
    /\ input_dir' = dir
    /\ run_pc' = "edited"
    /\ UNCHANGED <<replicates_dir, args, job_files, job_idx, records,
                   records_csv, outcomes, invoked, predictions, out_dir_made>>

\* a file of the input directory is rewritten
EditFile ==
    /\ run_pc \in {"edited", "replicated"}
    /\ \E f \in Files(input_dir) :
        \E c \in Contents \ {input_dir[f]} :
            DirEdit([input_dir EXCEPT ![f] = c])

\* a file is added to the input directory
AddFile ==
    /\ run_pc \in {"edited", "replicated"}
    /\ \E f \in InputPool \ Files(input_dir) :
        DirEdit([g \in Files(input_dir) \cup {f} |->
                    IF g = f THEN "v1" ELSE input_dir[g]])

\* a file is removed from the input directory
RemoveFile ==
    /\ run_pc \in {"edited", "replicated"}
    /\ \E f \in Files(input_dir) :
        DirEdit([g \in Files(input_dir) \ {f} |-> input_dir[g]])

RepStart ==
    /\ \E S \in SUBSET InputPool : input_dir = [f \in S |-> "v1"]
    /\ replicates_dir = EmptyDir
    /\ args = [num_replicates |-> 0, max_time |-> 0]
    /\ run_pc = "edited"
    /\ job_files = <<>>
    /\ job_idx = 0
    /\ records = <<>>
    /\ records_csv = NoFile
    /\ outcomes = <<>>
    /\ invoked = <<>>
    /\ predictions = EmptyDir
    /\ out_dir_made = FALSE

----------------------------------------------------------------------------
(* Names drawn as inputs *)

Tokens == {<<"a">>, <<"1">>, <<"2">>, <<".">>, <<"_">>, S_rep, S_yaml, S_yml}

RECURSIVE NamesOf(_)
NamesOf(n) ==
    IF n = 0 THEN {<<>>}
    ELSE LET shorter == NamesOf(n - 1)
         IN  shorter \cup {s \o t : s \in shorter, t \in Tokens}

BaseNames == NamesOf(MaxTokens)

----------------------------------------------------------------------------
(* The name functions as a state machine: draw a stem, name a file from   *)
(* it, apply the functions of run_boltz.py and aggregate_job.py to it.     *)

NoOut == [rep |-> 0, base |-> NaN, ybase |-> NaN, job |-> NaN]

FnIdle ==
    /\ fn_pc = "off"
    /\ fn_base = NaN
    /\ fn_name = NaN
    /\ fn_src = [kind |-> "none", rep |-> 0, file |-> NaN]
    /\ fn_out = NoOut

FnStart ==
    /\ fn_pc = "base"
    /\ fn_base \in BaseNames
    /\ fn_name = NaN
    /\ fn_src = [kind |-> "none", rep |-> 0, file |-> NaN]
    /\ fn_out = NoOut

\* duplicate_yaml_files names replicate rep of the document <fn_base><ext>
FnReplicate ==
    /\ fn_pc = "base"
    /\ \E rep \in 1..MaxRep, ext \in {S_yaml, S_yml} :
        /\ fn_name' = new_filename(fn_base \o ext, rep)
        /\ fn_src' = [kind |-> "replicate", rep |-> rep, file |-> fn_base \o ext]
    /\ fn_pc' = "named"
    /\ UNCHANGED <<fn_base, fn_out>>

\* a run-record file name written as <fn_base>_rep<k>.yaml
FnSuffix ==
    /\ fn_pc = "base"
    /\ \E rep \in 1..MaxRep :
        /\ fn_name' = fn_base \o S_rep \o str(rep) \o S_yaml
        /\ fn_src' = [kind |-> "suffix", rep |-> rep, file |-> fn_base \o S_yaml]
    /\ fn_pc' = "named"
    /\ UNCHANGED <<fn_base, fn_out>>

\* the drawn name itself is the file name
FnRaw ==
    /\ fn_pc = "base"
    /\ fn_name' = fn_base
    /\ fn_src' = [kind |-> "raw", rep |-> 0, file |-> fn_base]
    /\ fn_pc' = "named"
    /\ UNCHANGED <<fn_base, fn_out>>

FnApply ==
    /\ fn_pc = "named"
    /\ fn_out' = [rep |-> extract_replicate_number(fn_name),
                  base |-> extract_base(fn_name),
                  ybase |-> yaml_base_name(fn_name),
                  job |-> job_id_of(fn_name)]
    /\ fn_pc' = "applied"
    /\ UNCHANGED <<fn_base, fn_name, fn_src>>

----------------------------------------------------------------------------
(* write_yamls.py: one document per experiment row *)

K_entity == <<"e", "n", "t", "i", "t", "y", "_">>
K_type == <<"_", "t", "y", "p", "e">>
K_id == <<"_", "i", "d">>
K_sequences == <<"s", "e", "q", "u", "e", "n", "c", "e", "s">>
S_nan == <<"n", "a", "n">>
S_protein == <<"p", "r", "o", "t", "e", "i", "n">>
S_ligand == <<"l", "i", "g", "a", "n", "d">>

type_col(i) == K_entity \o str(i) \o K_type
id_col(i) == K_entity \o str(i) \o K_id

\* str(x) of a cell
str_cell(x) == IF isna(x) THEN S_nan ELSE x

\* pd.isna(x) or x.strip() == ''
blank(x) == isna(x) \/ \A i \in 1..Len(x) : x[i] \in {" ", NL}

\* s.split(',')
RECURSIVE split_comma(_)
split_comma(s) ==
    IF \E i \in 1..Len(s) : s[i] = ","
    THEN LET i == Min({j \in 1..Len(s) : s[j] = ","})
         IN  <<Upto(s, i - 1)>> \o split_comma(From(s, i + 1))
    ELSE <<s>>

\* "_".join(ids)
RECURSIVE join_underscore(_)
join_underscore(ids) ==
    IF ids = <<>> THEN <<>>
    ELSE IF Len(ids) = 1 THEN ids[1]
    ELSE ids[1] \o <<"_">> \o join_underscore(Tail(ids))

F_id == <<"i", "d">>
F_sequence == <<"s", "e", "q", "u", "e", "n", "c", "e">>
F_smiles == <<"s", "m", "i", "l", "e", "s">>
F_ccd == <<"c", "c", "d">>
F_msa == <<"m", "s", "a">>
F_cyclic == <<"c", "y", "c", "l", "i", "c">>
F_modifications ==
    <<"m", "o", "d", "i", "f", "i", "c", "a", "t", "i", "o", "n", "s">>
K_bonds == <<"b", "o", "n", "d", "s">>
K_pockets == <<"p", "o", "c", "k", "e", "t", "s">>
K_contacts == <<"c", "o", "n", "t", "a", "c", "t", "s">>
K_constraints ==
    <<"c", "o", "n", "s", "t", "r", "a", "i", "n", "t", "s">>
K_affinity_binder ==
    <<"a", "f", "f", "i", "n", "i", "t", "y", "_", "b", "i", "n", "d", "e", "r">>
K_properties == <<"p", "r", "o", "p", "e", "r", "t", "i", "e", "s">>
S_True == <<"T", "r", "u", "e">>
S_False == <<"F", "a", "l", "s", "e">>
S_true == <<"t", "r", "u", "e">>

\* f'entity_{entity_index}_<field>'
entity_col(entity_index, field) == K_entity \o entity_index \o <<"_">> \o field

\* row.get(col)
get(row, col) == IF col \in DOMAIN row THEN row[col] ELSE NaN

\* entity_pattern.match(col).group(1) for r'entity_(\d+)_type': the digits
\* between the two fixed parts, or <<>> when col does not match
entity_index_of(col) ==
    IF ~startswith(col, K_entity) THEN <<>>
    ELSE LET e == DigitRunEnd(col, Len(K_entity) + 1)
         IN  IF e > Len(K_entity) /\ At(col, e + 1, K_type)
             THEN SubSeq(col, Len(K_entity) + 1, e)
             ELSE <<>>

\* line 94: the columns of the row that match entity_pattern
entity_cols(row) == {col \in DOMAIN row : entity_index_of(col) # <<>>}

\* character codes, as far as column names differ in them
ord(c) == IF c \in Digits THEN 48 + DigitVal(c) ELSE 95

\* a < b on strings
str_less(a, b) ==
    \/ Len(a) < Len(b) /\ Upto(b, Len(a)) = a
    \/ \E i \in 1..Min({Len(a), Len(b)}) :
            /\ Upto(a, i - 1) = Upto(b, i - 1)
            /\ ord(a[i]) < ord(b[i])

\* sorted(cols) without a key: by column name
RECURSIVE entity_keys_sorted_ByName(_)
entity_keys_sorted_ByName(cols) ==
    IF cols = {} THEN <<>>
    ELSE LET first == CHOOSE c \in cols :
                        \A d \in cols \ {c} : str_less(c, d)
         IN  <<first>> \o entity_keys_sorted_ByName(cols \ {first})

\* line 97: sorted(entity_cols, key=int(group(1)))
RECURSIVE entity_keys_sorted(_)
entity_keys_sorted(cols) ==
    IF cols = {} THEN <<>>
    ELSE LET first == CHOOSE c \in cols :
                        \A d \in cols :
                            int(entity_index_of(c)) <= int(entity_index_of(d))
         IN  <<first>> \o entity_keys_sorted(cols \ {first})

\* json.loads on the payload texts of the tables: a list of digits, {} or a
\* digit; any other text raises JSONDecodeError (ok = FALSE)
json_loads(text) ==
    LET inner == SubSeq(text, 2, Len(text) - 1)
        parts == IF inner = <<>> THEN <<>> ELSE split_comma(inner)
        is_list ==
            /\ Len(text) >= 2
            /\ text[1] = "[" /\ text[Len(text)] = "]"
            /\ \A j \in 1..Len(parts) :
                    Len(parts[j]) = 1 /\ parts[j][1] \in Digits
        is_other == text = <<"{", "}">> \/ (Len(text) = 1 /\ text[1] \in Digits)
    IN  [ok |-> is_list \/ is_other,
         is_list |-> is_list,
         value |-> IF is_list THEN parts ELSE text]

\* bool(cell) of a cell read by pandas: the text False is read as the
\* boolean False
truthy(x) == x # S_False

\* process_row, lines 106-131: the data of one entity
entity_data(row, entity_index) ==
    LET optional(f) == get(row, entity_col(entity_index, f))
        chain_ids == split_comma(str_cell(row[entity_col(entity_index, F_id)]))
        plain == {f \in {F_sequence, F_smiles, F_ccd, F_msa} :
                    ~isna(optional(f))}
        cyclic == IF ~isna(optional(F_cyclic)) /\ truthy(optional(F_cyclic))
                  THEN {F_cyclic} ELSE {}
        modifications ==
            IF /\ ~blank(optional(F_modifications))
               /\ json_loads(optional(F_modifications)).ok
            THEN {F_modifications} ELSE {}
    IN  [f \in {F_id} \cup plain \cup cyclic \cup modifications |->
            IF f = F_id
            THEN (IF Len(chain_ids) > 1 THEN chain_ids ELSE chain_ids[1])
            ELSE IF f = F_cyclic THEN S_true
            ELSE IF f = F_modifications THEN json_loads(optional(f)).value
            ELSE optional(f)]

\* process_row, lines 91-137: the entities with a type, in sorted order
sequences_of(row) ==
    LET Typed(type_key) == ~blank(row[type_key])
        kept == SelectSeq(entity_keys_sorted(entity_cols(row)), Typed)
    IN  [j \in 1..Len(kept) |->
            [type |-> row[kept[j]],
             data |-> entity_data(row, entity_index_of(kept[j]))]]

\* key.rstrip('s')
RECURSIVE rstrip_s(_)
rstrip_s(key) ==
    IF key # <<>> /\ key[Len(key)] = "s" THEN rstrip_s(Upto(key, Len(key) - 1))
    ELSE key

\* lines 143-152 for one key: the items of a list payload, each under the
\* singular key; nothing for an absent, blank, malformed or non-list cell
wrapped(row, key) ==
    IF key \in DOMAIN row /\ ~blank(row[key]) /\ json_loads(row[key]).is_list
    THEN [j \in 1..Len(json_loads(row[key]).value) |->
            [key |-> rstrip_s(key), item |-> json_loads(row[key]).value[j]]]
    ELSE <<>>

constraint_keys == <<K_bonds, K_pockets, K_contacts>>

\* the loop with one try around all keys: a malformed cell ends it
RECURSIVE constraints_of_OneTry(_, _)
constraints_of_OneTry(row, keys) ==
    IF keys = <<>> THEN <<>>
    ELSE IF Head(keys) \in DOMAIN row /\ ~blank(row[Head(keys)])
            /\ ~json_loads(row[Head(keys)]).ok
    THEN <<>>
    ELSE wrapped(row, Head(keys)) \o constraints_of_OneTry(row, Tail(keys))

\* process_row, lines 140-152: the constraints list
RECURSIVE constraints_of(_, _)
constraints_of(row, keys) ==
    IF keys = <<>> THEN <<>>
    ELSE wrapped(row, Head(keys)) \o constraints_of(row, Tail(keys))

\* process_row, lines 158-160
properties_of(row) ==
    IF K_affinity_binder \in DOMAIN row /\ ~isna(row[K_affinity_binder])
    THEN <<[binder |-> row[K_affinity_binder]]>>
    ELSE <<>>

\* process_row: the document, with the sections that are not empty
process_row(row) ==
    LET section(key, list) == IF list # <<>> THEN key :> list ELSE <<>>
    IN  section(K_sequences, sequences_of(row))
            @@ section(K_constraints, constraints_of(row, constraint_keys))
            @@ section(K_properties, properties_of(row))

\* line 210: the fallback name reads entity_<i>_id for i = 1..number of
\* entities; a missing column raises KeyError
name_raises(row) ==
    /\ ~(K_foldname \in DOMAIN row /\ ~blank(row[K_foldname]))
    /\ \E i \in 1..Len(sequences_of(row)) : id_col(i) \notin DOMAIN row

\* main, lines 205-213: the name of the row's document
yaml_filename(row) ==
    LET n == Len(sequences_of(row))
        ids == [i \in 1..n |-> str_cell(row[id_col(i)])]
        filename_base == IF K_foldname \in DOMAIN row /\ ~blank(row[K_foldname])
                         THEN row[K_foldname]
                         ELSE join_underscore(ids)
    IN  filename_base \o S_yaml

\* line 217: open() fails when the name points into a missing directory
has_sep(name) == \E i \in 1..Len(name) : name[i] = "/"

EncIdle ==
    /\ input_csv = NoTable
    /\ enc_pc = "off"
    /\ enc_idx = 0
    /\ yaml_file_names = <<>>

\* main, lines 192-200: the output folder is made and the table is read;
\* without the table main prints an error and returns (exit status 0)
EncBegin ==
    /\ enc_pc = "start"
    /\ enc_pc' = IF input_csv.written THEN "rows" ELSE "done"
    /\ UNCHANGED <<input_csv, enc_idx, yaml_file_names, input_dir, yaml_csv>>

\* main, lines 202-224: one row becomes one document under its file name;
\* an existing file of that name is overwritten
EncRow ==
    /\ enc_pc = "rows"
    /\ enc_idx < Len(input_csv.rows)
    /\ LET row == input_csv.rows[enc_idx + 1]
       IN  IF name_raises(row)
           THEN /\ enc_pc' = "crashed"
                /\ UNCHANGED <<enc_idx, yaml_file_names, input_dir>>
           ELSE /\ yaml_file_names' = Append(yaml_file_names, yaml_filename(row))
                /\ IF has_sep(yaml_filename(row))
                   THEN /\ enc_pc' = "crashed"
                        /\ UNCHANGED <<enc_idx, input_dir>>
                   ELSE /\ input_dir' =
                             Merge(input_dir,
                                   yaml_filename(row) :> process_row(row))
                        /\ enc_idx' = enc_idx + 1
                        /\ UNCHANGED enc_pc
    /\ UNCHANGED <<input_csv, yaml_csv>>

\* main, lines 227-231: the table is saved with its yaml_file column
EncEnd ==
    /\ enc_pc = "rows"
    /\ enc_idx = Len(input_csv.rows)
    /\ yaml_csv' =
            Table(input_csv.cols \cup {K_yaml_file},
                  [i \in 1..Len(input_csv.rows) |->
                        Merge(input_csv.rows[i], K_yaml_file :> yaml_file_names[i])])
    /\ enc_pc' = "done"
    /\ UNCHANGED <<input_csv, enc_idx, yaml_file_names, input_dir>>

\* what write_yamls leaves alone
enc_rest == <<replicates_dir, args, run_pc, job_files, job_idx, records,
              records_csv, outcomes, invoked, predictions, out_dir_made,
              agg_pc, df_merged, agg_idx, final_rows, summary_csv, key_writes,
              copies>>

----------------------------------------------------------------------------
(* boltz_wrapper.py: the three stages in sequence *)

PipeIdle ==
    /\ wrap_pc = "off"
    /\ wrap_args = [num_replicates |-> 0, max_time |-> 0]

\* lines 51-62: write_yamls is started on the experiment table
WrapWriteYamls ==
    /\ wrap_pc = "write_yamls"
    /\ enc_pc = "off"
    /\ enc_pc' = "start"
    /\ wrap_pc' = "in_write_yamls"
    /\ UNCHANGED <<input_csv, enc_idx, yaml_file_names, wrap_args, run_vars,
                   agg_vars>>

\* lines 62-78: write_yamls has exited; check=True raises on a failure,
\* otherwise run_boltz is started on the yaml_out folder
WrapRunBoltz ==
    /\ wrap_pc = "in_write_yamls"
    /\ enc_pc \in {"done", "crashed"}
    /\ IF enc_pc = "done"
       THEN /\ run_pc' = "idle"
            /\ wrap_pc' = "in_run_boltz"
       ELSE /\ wrap_pc' = "failed"
            /\ UNCHANGED run_pc
    /\ UNCHANGED <<enc_vars, wrap_args, input_dir, replicates_dir, args,
                   job_files, job_idx, records, records_csv, outcomes, invoked,
                   predictions, out_dir_made, agg_vars>>

\* run_boltz has exited and aggregate_job is started whatever the status
WrapAggregate_Unchecked ==
    /\ wrap_pc = "in_run_boltz"
    /\ run_pc \in {"done", "crashed"}
    /\ agg_pc' = "start"
    /\ wrap_pc' = "in_aggregate_job"
    /\ UNCHANGED <<enc_vars, wrap_args, run_vars, yaml_csv, df_merged, agg_idx,
                   final_rows, summary_csv, key_writes, copies>>

\* lines 78-96: run_boltz has exited; check=True raises on a failure,
\* otherwise aggregate_job is started
WrapAggregate ==
    /\ wrap_pc = "in_run_boltz"
    /\ run_pc \in {"done", "crashed"}
    /\ IF run_pc = "done"
       THEN /\ agg_pc' = "start"
            /\ wrap_pc' = "in_aggregate_job"
       ELSE /\ wrap_pc' = "failed"
            /\ UNCHANGED agg_pc
    /\ UNCHANGED <<enc_vars, wrap_args, run_vars, yaml_csv, df_merged, agg_idx,
                   final_rows, summary_csv, key_writes, copies>>

\* lines 96-102: aggregate_job has exited; check=True raises on a failure
WrapEnd ==
    /\ wrap_pc = "in_aggregate_job"
    /\ agg_pc \in {"done", "crashed"}
    /\ wrap_pc' = IF agg_pc = "done" THEN "done" ELSE "failed"
    /\ UNCHANGED <<enc_vars, wrap_args, run_vars, agg_vars>>

\* a fold name that points into a folder
N_sub == <<"x", "/", "y">>

exp_in(foldname, type1, id1, type2, id2) ==
    (K_foldname :> foldname)
        @@ (type_col(1) :> type1) @@ (id_col(1) :> id1)
        @@ (type_col(2) :> type2) @@ (id_col(2) :> id2)

\* experiment rows: named a, b and a_rep2; unnamed with two entities; unnamed
\* with the first entity left without type; named into a missing folder
PipeRowPool ==
    {exp_in(N_a, S_protein, <<"A">>, S_ligand, <<"B">>),
     exp_in(N_b, S_protein, <<"A">>, NaN, NaN),
     exp_in(N_a_rep2, S_protein, <<"A">>, S_ligand, <<"B">>),
     exp_in(NaN, S_protein, <<"A">>, S_ligand, <<"B">>),
     exp_in(NaN, NaN, <<"A">>, S_ligand, <<"B">>),
     exp_in(N_sub, S_protein, <<"A">>, NaN, NaN)}

PipeCols == DOMAIN exp_in(NaN, NaN, NaN, NaN, NaN)

PipeStart ==
    /\ input_csv \in {NoTable}
            \cup {Table(PipeCols, rows) : rows \in SeqsUpTo(PipeRowPool, MaxRows)}
    /\ enc_pc = "off"
    /\ enc_idx = 0
    /\ yaml_file_names = <<>>
    /\ wrap_pc = "write_yamls"
    /\ wrap_args \in [num_replicates : 1..MaxReplicates, max_time : 0..MaxMinutes]

----------------------------------------------------------------------------
(* write_yamls.py alone, on tables with every kind of cell *)

EntityNumbers == {1, 2, MaxEntityNumber}

\* the columns of the tables: name, entity groups, the optional fields of
\* the first group, one of the last, constraints and affinity
EncCols ==
    {K_foldname, K_bonds, K_pockets, K_contacts, K_affinity_binder}
        \cup {type_col(i) : i \in EntityNumbers}
        \cup {id_col(i) : i \in EntityNumbers}
        \cup {entity_col(str(1), f) :
                f \in {F_sequence, F_smiles, F_msa, F_cyclic, F_modifications}}
        \cup {entity_col(str(MaxEntityNumber), F_ccd)}

enc_row(cells) == cells @@ [c \in EncCols |-> NaN]
ent(i, type, id) == (type_col(i) :> type) @@ (id_col(i) :> id)
opt(i, f, v) == entity_col(str(i), f) :> v

J_one == <<"[", "1", "]">>
J_two == <<"[", "1", ",", "2", "]">>
J_three == <<"[", "3", "]">>
J_dict == <<"{", "}">>
J_bad == <<"[", "1">>
N_c == <<"c">>
N_d == <<"d">>
N_e == <<"e">>
N_A_B == <<"A", "_", "B">>

\* every constraint cell valid
RowValid ==
    enc_row((K_foldname :> N_a)
        @@ ent(1, S_protein, <<"A">>) @@ opt(1, F_sequence, <<"M", "K">>)
        @@ ent(2, S_ligand, <<"B">>)
        @@ (K_bonds :> J_one) @@ (K_pockets :> J_two) @@ (K_contacts :> J_three))

\* the same with a bonds cell that does not parse
RowBadBonds ==
    enc_row((K_foldname :> N_b)
        @@ ent(1, S_protein, <<"A">>) @@ opt(1, F_sequence, <<"M", "K">>)
        @@ ent(2, S_ligand, <<"B">>)
        @@ (K_bonds :> J_bad) @@ (K_pockets :> J_two) @@ (K_contacts :> J_three))

\* second entity with a blank type; two chains, cyclic, modifications
RowGap ==
    enc_row((K_foldname :> N_c)
        @@ ent(1, S_protein, <<"A", ",", "B">>) @@ opt(1, F_cyclic, S_True)
        @@ opt(1, F_modifications, J_one) @@ opt(1, F_msa, <<"m">>)
        @@ ent(2, <<" ">>, <<"B">>)
        @@ ent(MaxEntityNumber, S_ligand, <<"C">>)
        @@ opt(MaxEntityNumber, F_ccd, <<"X">>))

\* three entities; cyclic False, modifications that do not parse, blank
\* bonds, pockets that are no list, an affinity binder
RowThree ==
    enc_row((K_foldname :> N_d)
        @@ ent(1, S_protein, <<"A">>) @@ opt(1, F_cyclic, S_False)
        @@ opt(1, F_modifications, J_bad)
        @@ ent(2, S_ligand, <<"B">>)
        @@ ent(MaxEntityNumber, S_ligand, <<"C">>)
        @@ (K_bonds :> <<" ">>) @@ (K_pockets :> J_dict)
        @@ (K_affinity_binder :> <<"B">>))

\* no fold name: the fallback name A_B
RowUnnamed ==
    enc_row(ent(1, S_protein, <<"A">>) @@ ent(2, S_ligand, <<"B">>))

\* a second row with the fold name a
RowSameName ==
    enc_row((K_foldname :> N_a)
        @@ ent(1, S_ligand, <<"L">>) @@ opt(1, F_smiles, <<"C", "C">>)
        @@ (K_contacts :> J_bad))

\* a fold name equal to the fallback name of RowUnnamed
RowNamedAsFallback ==
    enc_row((K_foldname :> N_A_B) @@ ent(1, S_protein, <<"A">>))

\* no fold name and only the last entity
RowUnnamedLast ==
    enc_row(ent(MaxEntityNumber, S_ligand, <<"C">>))

\* no fold name, the first entity without type but with an id
RowUnnamedGap ==
    enc_row(ent(1, NaN, <<"A">>) @@ ent(2, S_ligand, <<"B">>))

\* no fold name and three entities: the fallback reads entity_3_id
RowUnnamedThree ==
    enc_row(ent(1, S_protein, <<"A">>) @@ ent(2, S_ligand, <<"B">>)
        @@ ent(MaxEntityNumber, S_ligand, <<"C">>))

\* a fold name that points into a folder
RowSub == enc_row((K_foldname :> N_sub) @@ ent(1, S_protein, <<"A">>))

\* no entity at all
RowEmpty == enc_row(K_foldname :> N_e)

EncRowPool ==
    {RowValid, RowBadBonds, RowGap, RowThree, RowUnnamed, RowSameName,
     RowNamedAsFallback, RowUnnamedLast, RowUnnamedGap, RowUnnamedThree,
     RowSub, RowEmpty}

EncStart ==
    /\ input_csv \in {NoTable}
            \cup {Table(EncCols, rows) : rows \in SeqsUpTo(EncRowPool, MaxRows)}
    /\ enc_pc = "start"
    /\ enc_idx = 0
    /\ yaml_file_names = <<>>

----------------------------------------------------------------------------
(* Specifications *)

\* the name functions on drawn names
FnInit == FnStart /\ RunIdle /\ AggIdle /\ EncIdle /\ PipeIdle
FnNext ==
    \/ FnReplicate /\ UNCHANGED <<run_vars, agg_vars, enc_vars, pipe_vars>>
    \/ FnSuffix /\ UNCHANGED <<run_vars, agg_vars, enc_vars, pipe_vars>>
    \/ FnRaw /\ UNCHANGED <<run_vars, agg_vars, enc_vars, pipe_vars>>
    \/ FnApply /\ UNCHANGED <<run_vars, agg_vars, enc_vars, pipe_vars>>
SpecFn == FnInit /\ [][FnNext]_vars

\* one run of run_boltz.py over a drawn input directory
RunInit == RunStart /\ FnIdle /\ AggIdle /\ EncIdle /\ PipeIdle
RunNext ==
    \/ (\E n \in 1..MaxReplicates, t \in 0..MaxMinutes : RunBegin(n, t))
            /\ UNCHANGED <<fn_vars, agg_vars, enc_vars, pipe_vars>>
    \/ JobLaunch /\ UNCHANGED <<fn_vars, agg_vars, enc_vars, pipe_vars>>
    \/ JobSucceeds /\ UNCHANGED <<fn_vars, agg_vars, enc_vars, pipe_vars>>
    \/ JobFails /\ UNCHANGED <<fn_vars, agg_vars, enc_vars, pipe_vars>>
    \/ JobTimesOut /\ UNCHANGED <<fn_vars, agg_vars, enc_vars, pipe_vars>>
    \/ RunPersist /\ UNCHANGED <<fn_vars, agg_vars, enc_vars, pipe_vars>>
SpecRun == RunInit /\ [][RunNext]_vars

\* one run of write_yamls.py over a drawn experiment table
EncInit == EncStart /\ FnIdle /\ RunIdle /\ AggIdle /\ PipeIdle
EncNext ==
    \/ EncBegin /\ UNCHANGED <<fn_vars, pipe_vars, enc_rest>>
    \/ EncRow /\ UNCHANGED <<fn_vars, pipe_vars, enc_rest>>
    \/ EncEnd /\ UNCHANGED <<fn_vars, pipe_vars, enc_rest>>
SpecEnc == EncInit /\ [][EncNext]_vars

\* the same run where main goes on whenever it can and where the timer of
\* subprocess.run fires; the tool itself need never return
RunFair ==
    /\ WF_vars(JobLaunch /\ UNCHANGED <<fn_vars, agg_vars, enc_vars, pipe_vars>>)
    /\ WF_vars(JobTimesOut /\ UNCHANGED <<fn_vars, agg_vars, enc_vars, pipe_vars>>)
    /\ WF_vars(RunPersist /\ UNCHANGED <<fn_vars, agg_vars, enc_vars, pipe_vars>>)
SpecRunFair == RunInit /\ [][RunNext]_vars /\ RunFair

\* the Replicator alone, called repeatedly on an edited input directory
RepInit == RepStart /\ FnIdle /\ AggIdle /\ EncIdle /\ PipeIdle
RepNext ==
    \/ Replicate /\ UNCHANGED <<fn_vars, agg_vars, enc_vars, pipe_vars>>
    \/ EditFile /\ UNCHANGED <<fn_vars, agg_vars, enc_vars, pipe_vars>>
    \/ AddFile /\ UNCHANGED <<fn_vars, agg_vars, enc_vars, pipe_vars>>
    \/ RemoveFile /\ UNCHANGED <<fn_vars, agg_vars, enc_vars, pipe_vars>>
SpecRep == RepInit /\ [][RepNext]_vars

\* one run of aggregate_job.py over drawn tables and result folders
AggInit == AggStart /\ AggInputs /\ FnIdle /\ EncIdle /\ PipeIdle
AggNext ==
    \/ AggLoad /\ UNCHANGED <<fn_vars, run_vars, enc_vars, pipe_vars>>
    \/ AggRow /\ UNCHANGED <<fn_vars, run_vars, enc_vars, pipe_vars>>
    \/ AggRowsDone /\ UNCHANGED <<fn_vars, run_vars, enc_vars, pipe_vars>>
    \/ AggCopy /\ UNCHANGED <<fn_vars, run_vars, enc_vars, pipe_vars>>
    \/ AggWrite /\ UNCHANGED <<fn_vars, run_vars, enc_vars, pipe_vars>>
SpecAgg == AggInit /\ [][AggNext]_vars

\* boltz_wrapper.py: write_yamls, run_boltz and aggregate_job on one table
\* the output folder of run_boltz is new, or left by an earlier run
PipeInit ==
    PipeStart /\ RunOff /\ out_dir_made \in BOOLEAN /\ AggIdle /\ FnIdle
PipeNext ==
    \/ WrapWriteYamls /\ UNCHANGED fn_vars
    \/ EncBegin /\ UNCHANGED <<fn_vars, pipe_vars, enc_rest>>
    \/ EncRow /\ UNCHANGED <<fn_vars, pipe_vars, enc_rest>>
    \/ EncEnd /\ UNCHANGED <<fn_vars, pipe_vars, enc_rest>>
    \/ WrapRunBoltz /\ UNCHANGED fn_vars
    \/ RunBegin(wrap_args.num_replicates, wrap_args.max_time)
            /\ UNCHANGED <<fn_vars, agg_vars, enc_vars, pipe_vars>>
    \/ JobLaunch /\ UNCHANGED <<fn_vars, agg_vars, enc_vars, pipe_vars>>
    \/ JobSucceeds /\ UNCHANGED <<fn_vars, agg_vars, enc_vars, pipe_vars>>
    \/ JobFails /\ UNCHANGED <<fn_vars, agg_vars, enc_vars, pipe_vars>>
    \/ JobTimesOut /\ UNCHANGED <<fn_vars, agg_vars, enc_vars, pipe_vars>>
    \/ RunPersist /\ UNCHANGED <<fn_vars, agg_vars, enc_vars, pipe_vars>>
    \/ WrapAggregate /\ UNCHANGED fn_vars
    \/ AggLoad /\ UNCHANGED <<fn_vars, run_vars, enc_vars, pipe_vars>>
    \/ AggRow /\ UNCHANGED <<fn_vars, run_vars, enc_vars, pipe_vars>>
    \/ AggRowsDone /\ UNCHANGED <<fn_vars, run_vars, enc_vars, pipe_vars>>
    \/ AggCopy /\ UNCHANGED <<fn_vars, run_vars, enc_vars, pipe_vars>>
    \/ AggWrite /\ UNCHANGED <<fn_vars, run_vars, enc_vars, pipe_vars>>
    \/ WrapEnd /\ UNCHANGED fn_vars
SpecPipe == PipeInit /\ [][PipeNext]_vars

----------------------------------------------------------------------------
(* Claims on the Replicator (SpecRep) *)

\* C5: after every call duplicate_yaml_files(input_dir, N), N >= 1, in any
\* sequence of calls on the same input directory, the replicates folder
\* holds exactly (number of source documents) x N files, each named
\* <base>_rep<k><ext>, k in 1..N, with the content of its source document;
\* files that are not documents are not replicated.
C5_ExactReplicas ==
    run_pc = "replicated" =>
        LET N == args.num_replicates
            docs == yaml_files(input_dir)
        IN  /\ Files(replicates_dir) =
                    {new_filename(f, k) : f \in docs, k \in 1..N}
            /\ Cardinality(Files(replicates_dir)) = Cardinality(docs) * N
            /\ \A f \in docs, k \in 1..N :
                    replicates_dir[new_filename(f, k)] = input_dir[f]

----------------------------------------------------------------------------
(* Claims on the job loop of run_boltz.main (SpecRun) *)

Count(seq, x) == Cardinality({i \in 1..Len(seq) : seq[i] = x})
IsPrefix(s, t) == Len(s) <= Len(t) /\ SubSeq(t, 1, Len(s)) = s

\* C1: a job that exits non-zero or times out never aborts the batch: the
\* jobs are invoked in list order, none twice; whatever way a job ends, main
\* is back in its loop, which goes on to the next job or, after the last, to
\* writing the table (which ends main, written or not); and by then every
\* document of the list has been invoked exactly once.
C1_InvokedOnce ==
    /\ IsPrefix(invoked, job_files)
    /\ \A i \in 1..Len(job_files) : Count(invoked, job_files[i]) <= 1
    /\ job_idx <= Len(job_files)
    /\ run_pc \notin {"idle", "loop", "running"} =>
        /\ run_pc \in {"done", "crashed"}
        /\ \A i \in 1..Len(job_files) : Count(invoked, job_files[i]) = 1

\* C1: a failure or a timeout never aborts the batch: C1_InvokedOnce always
\* holds, every end of a job leads back to the loop, and the loop leads to the
\* next job or, after the last one, to the end of main.
C1_BatchNeverAborts ==
    /\ []C1_InvokedOnce
    /\ [][/\ run_pc = "running" => run_pc' = "loop"
          /\ run_pc = "loop" =>
                IF job_idx < Len(job_files) THEN run_pc' = "running"
                ELSE run_pc' \in {"done", "crashed"}]_vars

\* a finished batch in which a failure and a timeout were followed by
\* further jobs
C1_Witness ==
    /\ run_pc = "done"
    /\ Len(job_files) >= 3
    /\ invoked = job_files
    /\ \E i, j \in 1..(Len(outcomes) - 1) :
        outcomes[i] = "failure" /\ outcomes[j] = "timeout"

\* C2: every invocation, whatever its outcome, appends exactly one record:
\* the record list only grows at its end, it holds one record per job
\* attempted so far (that of the i-th invocation at place i), and the
\* persisted table holds one record per replicate document.
C2_RecordsInvariant ==
    /\ Len(records) = Len(invoked) - (IF run_pc = "running" THEN 1 ELSE 0)
    /\ Len(records) = Len(outcomes)
    /\ \A i \in 1..Len(records) : records[i].filename = invoked[i]
    /\ run_pc = "done" =>
        /\ records_csv = File(records)
        /\ Len(records_csv.rows) = Cardinality(yaml_files(replicates_dir))

\* C2: every invocation appends exactly one record: C2_RecordsInvariant
\* always holds and every step leaves the record list as it is or appends
\* one record to it.
C2_OneRecordPerInvocation ==
    /\ []C2_RecordsInvariant
    /\ [][IsPrefix(records, records') /\ Len(records') <= Len(records) + 1]_vars

\* a persisted table with a record for a success, a failure and a timeout
C2_Witness ==
    /\ run_pc = "done"
    /\ Len(records_csv.rows) >= 3
    /\ {"success", "failure", "timeout"} \subseteq {outcomes[i] : i \in 1..Len(outcomes)}

\* C3 as stated: the Run Record carries the outcome of its job, so that in
\* the persisted table jobs that ended differently are told apart by what
\* their rows hold besides the file's own name and replicate number.
C3_OutcomeRecorded ==
    run_pc = "done" =>
        \A i, j \in 1..Len(records_csv.rows) :
            outcomes[i] # outcomes[j] =>
                records_csv.rows[i].processing_time_sec # records_csv.rows[j].processing_time_sec

\* C3 amended: a Run Record holds the file name, the replicate number and
\* the rounded elapsed time and nothing else; a timed-out job is recorded
\* with the configured cap max_time * 60, a failed or succeeded job with its
\* measured time.
C3_RecordFields ==
    \A i \in 1..Len(records) :
        /\ DOMAIN records[i] = {"filename", "replicate", "processing_time_sec"}
        /\ records[i].replicate = extract_replicate_number(records[i].filename)
        /\ outcomes[i] = "timeout" =>
            records[i].processing_time_sec = round2(timeout_ms(args.max_time))
        /\ outcomes[i] # "timeout" =>
            records[i].processing_time_sec \in {round2(ms) : ms \in ElapsedMs}

\* a persisted table where a succeeded and a failed job have the same
\* elapsed time, beside a timed-out job
C3_Witness ==
    /\ run_pc = "done"
    /\ \E i, j, k \in 1..Len(records_csv.rows) :
        /\ outcomes[i] = "success" /\ outcomes[j] = "failure"
        /\ outcomes[k] = "timeout"
        /\ records_csv.rows[i].processing_time_sec = records_csv.rows[j].processing_time_sec

----------------------------------------------------------------------------
(* Claims on the name functions (SpecFn) *)

\* C6: the replicate number is recoverable from every file name the
\* Replicator writes: extract_replicate_number(<base>_rep<k><ext>) = k for
\* every document, and a name with no _rep<digits> gives 1.
C6_ReplicateRecoverable ==
    fn_pc = "applied" =>
        /\ fn_src.kind = "replicate" => fn_out.rep = fn_src.rep
        /\ (fn_src.kind = "raw" /\ RepMatches(fn_name) = {}) => fn_out.rep = 1

\* C7: extract_base inverts replicate naming: extract_base(B_rep<k>.yaml) = B
\* for every base name B and k >= 1; a name with no replicate suffix loses
\* only its last extension segment; hence a replicate of the experiment row
\* whose yaml_file is B.yaml has that row's base_name.
C7_ExtractBaseInverts ==
    fn_pc = "applied" =>
        /\ fn_src.kind = "suffix" =>
            /\ fn_out.base = fn_base
            /\ yaml_base_name(fn_src.file) = fn_out.base
        /\ (fn_src.kind = "raw" /\ BaseMatches(fn_name) = {}) =>
            /\ DotPositions(fn_name) = {} => fn_out.base = fn_name
            /\ \A d \in DotPositions(fn_name) :
                (\A e \in DotPositions(fn_name) : e <= d)
                    => fn_out.base = Upto(fn_name, d - 1)

\* a base that itself holds _rep<digits>, with a two-digit replicate number
C7_Witness ==
    /\ fn_pc = "applied"
    /\ fn_src.kind = "suffix"
    /\ RepMatches(fn_base) # {}
    /\ fn_src.rep >= 10
    /\ fn_out.base = fn_base

\* C8 as stated: for every file name that carries no replicate suffix, the
\* Run-Record derivation (extract_base) and the Experiment derivation
\* (strip a trailing .yaml) give the same base identifier.
C8_DerivationsAgree ==
    (fn_pc = "applied" /\ fn_src.kind = "raw" /\ RepMatches(fn_name) = {})
        => fn_out.base = fn_out.ybase

\* C8 amended: for a file name that carries no replicate suffix the two
\* derivations agree exactly when the name ends in .yaml or holds no dot.
C8_AgreeIffYaml ==
    (fn_pc = "applied" /\ fn_src.kind = "raw" /\ BaseMatches(fn_name) = {})
        => ((fn_out.base = fn_out.ybase)
                <=> (endswith(fn_name, S_yaml) \/ DotPositions(fn_name) = {}))

\* an unreplicated document name a.yaml on which both give a
C8_Witness ==
    /\ fn_pc = "applied"
    /\ fn_src.kind = "raw"
    /\ fn_name = <<"a">> \o S_yaml
    /\ fn_out.base = <<"a">>
    /\ fn_out.ybase = <<"a">>

----------------------------------------------------------------------------
(* Claims on the Aggregator (SpecAgg) *)

\* the experiment rows whose base name is that of the Run Record rec
experiment_hits(rec) ==
    {i \in 1..Len(yaml_csv.rows) :
        yaml_base_name(yaml_csv.rows[i][K_yaml_file]) = extract_base(rec.filename)}

RECURSIVE expected_rows(_)
expected_rows(recs) ==
    IF recs = <<>> THEN 0
    ELSE (IF isna(Head(recs).filename) THEN 0
          ELSE Max({1, Cardinality(experiment_hits(Head(recs)))}))
            + expected_rows(Tail(recs))

\* C4 as stated: the number of Summary Rows equals the number of input Run
\* Records, whatever the two tables hold.
C4_NoRecordDropped ==
    summary_csv.written => Len(summary_csv.rows) = Len(records_csv.rows)

\* C4: once the summary is written, it holds no row for a Run Record without a
\* filename, and for every other Run Record one row per experiment row with its
\* base name, or one row when there is none, result folder or not; so no Run
\* Record with a filename is dropped.
C4_RowsPerRecord ==
    summary_csv.written =>
        /\ Len(summary_csv.rows) = expected_rows(records_csv.rows)
        /\ \A i \in 1..Len(records_csv.rows) :
                isna(records_csv.rows[i].filename)
                \/ \E j \in 1..Len(summary_csv.rows) :
                        /\ summary_csv.rows[j][K_filename] = records_csv.rows[i].filename
                        /\ summary_csv.rows[j][K_replicate]
                                = cell(records_csv.rows[i].replicate)

\* a summary written from a record without filename, a record with two
\* experiment rows and no result folder
C4_Witness ==
    /\ summary_csv.written
    /\ Len(records_csv.rows) = 2
    /\ \E i, j \in 1..2 :
        /\ isna(records_csv.rows[i].filename)
        /\ ~isna(records_csv.rows[j].filename)
        /\ Cardinality(experiment_hits(records_csv.rows[j])) = 2
        /\ job_id_of(records_csv.rows[j].filename) \notin DOMAIN predictions
    /\ Len(summary_csv.rows) = 2

\* C9: two different result documents of one job never write the same key
\* into the job's metrics: no model's value overwrites another's and no
\* affinity key overwrites a confidence key.
C9_NoKeyCollision ==
    \A w1, w2 \in key_writes :
        (w1[1] = w2[1] /\ w1[2] = w2[2]) => w1[3] = w2[3]

----------------------------------------------------------------------------
(* Claims on the whole pipeline (SpecPipe) *)

\* the experiment rows of the written table have pairwise distinct base names
distinct_base_names ==
    \A i, j \in 1..Len(yaml_csv.rows) :
        yaml_base_name(yaml_csv.rows[i][K_yaml_file])
            = yaml_base_name(yaml_csv.rows[j][K_yaml_file]) => i = j

\* the Summary Rows of experiment row i with replicate number k
summary_rows_of(i, k) ==
    {j \in 1..Len(summary_csv.rows) :
        /\ summary_csv.rows[j][K_base_name]
                = yaml_base_name(yaml_csv.rows[i][K_yaml_file])
        /\ summary_csv.rows[j][K_foldname] = yaml_csv.rows[i][K_foldname]
        /\ summary_csv.rows[j][K_replicate] = cell(k)}

fan_out_fan_in ==
    LET R == Len(yaml_csv.rows)
        N == wrap_args.num_replicates
    IN  /\ Cardinality(Files(replicates_dir)) = R * N
        /\ Len(records_csv.rows) = R * N
        /\ Len(summary_csv.rows) = R * N
        /\ \A i \in 1..R, k \in 1..N : Cardinality(summary_rows_of(i, k)) = 1

\* C10: for R experiment rows with distinct base names and replicate count N,
\* a finished pipeline has R*N replicate documents, R*N Run Records and R*N
\* Summary Rows, N per base job, each with the job's experiment metadata and
\* each replicate number of 1..N once per job.
C10_FanOutFanIn ==
    (wrap_pc = "done" /\ distinct_base_names) => fan_out_fan_in

\* the same for tables in which no document name holds _rep<digits>
C10_FanOutFanIn_PlainNames ==
    (/\ wrap_pc = "done"
     /\ distinct_base_names
     /\ \A i \in 1..Len(yaml_csv.rows) :
            RepMatches(yaml_csv.rows[i][K_yaml_file]) = {})
        => fan_out_fan_in

----------------------------------------------------------------------------
(* Claims on the copy phase of the Aggregator (SpecAgg) *)

\* the file names of the joined table that have a result folder
copied_jobs ==
    {f \in {df_merged[i][K_filename] : i \in 1..Len(df_merged)} :
        ~isna(f) /\ job_id_of(f) \in DOMAIN predictions}

\* how often file of job_yaml's folder was copied into bucket dir
times_copied(job_yaml, dir, file) ==
    Cardinality({i \in 1..Len(copies) :
        copies[i] = [job |-> job_yaml, dir |-> dir, file |-> file]})

\* C11 as stated: the copy phase has one group per logical job (base
\* identifier), not one per replicate: the files copied for two Run Records
\* of one base identifier come from one group.
C11_GroupedByBase ==
    agg_pc \in {"write", "done"} =>
        \A i, j \in 1..Len(copies) :
            extract_base(copies[i].job) = extract_base(copies[j].job)
                => copies[i].job = copies[j].job

\* C11 amended: the copy phase has one group per distinct Run Record file
\* name (a replicate document), and every result file of that replicate's
\* folder that matches a bucket's pattern is copied into that bucket exactly
\* once, however many rows of the joined table hold the file name; nothing
\* else is copied.
C11_CopiedOncePerFilename ==
    agg_pc \in {"write", "done"} =>
        /\ \A f \in copied_jobs :
            \A k \in 1..Len(Buckets(job_id_of(f))) :
                LET b == Buckets(job_id_of(f))[k]
                IN  \A file \in bucket_files(predictions[job_id_of(f)], b) :
                        times_copied(f, b.dir, file) = 1
        /\ \A i \in 1..Len(copies) :
            /\ copies[i].job \in copied_jobs
            /\ \E k \in 1..Len(Buckets(job_id_of(copies[i].job))) :
                LET b == Buckets(job_id_of(copies[i].job))[k]
                IN  /\ copies[i].dir = b.dir
                    /\ copies[i].file
                        \in bucket_files(predictions[job_id_of(copies[i].job)], b)

\* a finished copy phase over a joined table with two rows for one replicate
\* document whose result folder holds files of several buckets
C11_Witness ==
    /\ agg_pc = "done"
    /\ \E i, j \in 1..Len(df_merged) :
        /\ i # j
        /\ df_merged[i][K_filename] = df_merged[j][K_filename]
        /\ df_merged[i][K_filename] \in copied_jobs
    /\ Cardinality({copies[i].dir : i \in 1..Len(copies)}) >= 3
----------------------------------------------------------------------------
(* Claims on the failure of a stage (SpecPipe) *)

\* C12: when the experiment input file is absent, the pipeline driven by
\* boltz_wrapper stops at the encoding stage with a failure, so neither the
\* runner stage nor the aggregation stage is started.
C12_AbsentInputStopsAtEncoding ==
    ~input_csv.written =>
        /\ run_pc = "off"
        /\ agg_pc = "off"
        /\ wrap_pc \in {"write_yamls", "in_write_yamls", "failed"}

\* C12, second half: a joined table without the yaml_file column ends the
\* aggregator before any bucket copy and before the summary is written.
C12_NoYamlFileColumn ==
    /\ yaml_csv.written
    /\ K_yaml_file \notin yaml_csv.cols
    /\ records_csv.rows # <<>>
    /\ predictions # EmptyDir
    /\ agg_pc = "crashed"

C12_NoYamlFileColumnStops ==
    (yaml_csv.written /\ K_yaml_file \notin yaml_csv.cols /\ agg_pc # "start")
        => agg_pc = "crashed" /\ copies = <<>> /\ ~summary_csv.written
----------------------------------------------------------------------------
(* Claims on the documents of write_yamls (SpecEnc) *)

\* the row handled last and the document written for it
row_written == enc_idx >= 1 /\ enc_pc \in {"rows", "done", "crashed"}
last_row == input_csv.rows[enc_idx]
last_document == input_dir[yaml_file_names[enc_idx]]
entities_of(doc) == IF K_sequences \in DOMAIN doc THEN doc[K_sequences] ELSE <<>>

\* the entity numbers of a row whose type cell is not empty, ascending
RECURSIVE ascending(_)
ascending(S) == IF S = {} THEN <<>> ELSE <<Min(S)>> \o ascending(S \ {Min(S)})
typed_numbers(row) ==
    ascending({i \in EntityNumbers : ~blank(row[type_col(i)])})

OptionalFields ==
    {F_sequence, F_smiles, F_ccd, F_msa, F_cyclic, F_modifications}

\* C13: the document of a row holds exactly the entities whose
\* entity_<i>_type cell is not empty, in ascending numeric order of i, and
\* an entity holds no optional field whose cell is absent; the text fields
\* whose cell is present hold the cell.
C13_EntitiesInNumericOrder ==
    row_written =>
        LET typed == typed_numbers(last_row)
            entities == entities_of(last_document)
        IN  /\ Len(entities) = Len(typed)
            /\ \A j \in 1..Len(typed) :
                LET i == typed[j]
                    id == split_comma(str_cell(last_row[id_col(i)]))
                    data == entities[j].data
                IN  /\ entities[j].type = last_row[type_col(i)]
                    /\ data[F_id] = IF Len(id) > 1 THEN id ELSE id[1]
                    /\ \A f \in OptionalFields :
                        isna(get(last_row, entity_col(str(i), f)))
                            => f \notin DOMAIN data
                    /\ \A f \in {F_sequence, F_smiles, F_ccd, F_msa} :
                        ~isna(get(last_row, entity_col(str(i), f)))
                            => /\ f \in DOMAIN data
                               /\ data[f] = last_row[entity_col(str(i), f)]

\* a document with the entities 1, 2 and MaxEntityNumber, and one where the
\* entity between two others is left out
C13_Witness ==
    /\ row_written
    /\ last_row \in {RowThree, RowGap}
    /\ Len(entities_of(last_document)) = Len(typed_numbers(last_row))
    /\ Len(typed_numbers(last_row)) >= 2
S_bond == <<"b", "o", "n", "d">>
S_pocket == <<"p", "o", "c", "k", "e", "t">>
S_contact == <<"c", "o", "n", "t", "a", "c", "t">>

constraints_in(doc) ==
    IF K_constraints \in DOMAIN doc THEN doc[K_constraints] ELSE <<>>

\* the items of a constraint cell that holds a list; none otherwise
items_of(row, key) ==
    IF ~blank(row[key]) /\ json_loads(row[key]).is_list
    THEN json_loads(row[key]).value ELSE <<>>

\* a cell with text that does not parse
malformed(row, key) == ~blank(row[key]) /\ ~json_loads(row[key]).ok
has_malformed(row) ==
    \E key \in {K_bonds, K_pockets, K_contacts} : malformed(row, key)
well_formed(row) == ~has_malformed(row)

\* the folder a run over these rows leaves: a later row of the same name
\* replaces the earlier document
RECURSIVE documents_of(_)
documents_of(rows) ==
    IF rows = <<>> THEN EmptyDir
    ELSE Merge(documents_of(Upto(rows, Len(rows) - 1)),
               yaml_filename(rows[Len(rows)]) :> process_row(rows[Len(rows)]))

----------------------------------------------------------------------------
(* Claims on the order of the jobs (SpecRun) *)

\* the state of the j-th job of the list, from what main has done so far:
\* handed to subprocess.run or not, returned or not, and how
job_state(inv, out, j) ==
    IF j > Len(inv) THEN "Pending"
    ELSE IF j > Len(out) THEN "Running"
    ELSE IF out[j] = "success" THEN "Succeeded"
    ELSE IF out[j] = "failure" THEN "Failed"
    ELSE "TimedOut"

Terminal == {"Succeeded", "Failed", "TimedOut"}

C15_AtMostOneRunning ==
    /\ Cardinality({j \in 1..Len(job_files) :
                        job_state(invoked, outcomes, j) = "Running"}) <= 1
    /\ \A j \in 1..Len(job_files) :
            job_state(invoked, outcomes, j) # "Pending" =>
                \A i \in 1..(j - 1) : job_state(invoked, outcomes, i) \in Terminal

\* C15: the jobs run strictly one after the other along Pending -> Running
\* -> {Succeeded, Failed, TimedOut}: at most one job is Running, a job
\* starts only when every earlier job of the list is terminal, each step
\* moves a job along the state machine, and a terminal state never changes.
C15_Sequential ==
    /\ []C15_AtMostOneRunning
    /\ [][\A j \in 1..Len(job_files) :
            LET now == job_state(invoked, outcomes, j)
                next == job_state(invoked', outcomes', j)
            IN  /\ now = "Pending" => next \in {"Pending", "Running"}
                /\ now = "Running" => next \in {"Running"} \cup Terminal
                /\ now \in Terminal => next = now
                /\ (now = "Pending" /\ next = "Running") =>
                        \A i \in 1..(j - 1) :
                            job_state(invoked, outcomes, i) \in Terminal]_vars

\* the third job is Running after a failure and a timeout, a fourth Pending
C15_Witness ==
    /\ Len(job_files) = 4
    /\ job_state(invoked, outcomes, 1) = "Failed"
    /\ job_state(invoked, outcomes, 2) = "TimedOut"
    /\ job_state(invoked, outcomes, 3) = "Running"
    /\ job_state(invoked, outcomes, 4) = "Pending"
----------------------------------------------------------------------------
(* Claims on the end of the batch (SpecRunFair) *)

\* C16: with a timeout configured the batch always ends with the Run Record
\* table persisted, after all jobs were attempted and with all records.
C16_TerminatesPersisted ==
    (run_pc = "loop" /\ args.max_time # 0)
        ~> (/\ run_pc = "done"
            /\ Len(outcomes) = Len(job_files)
            /\ records_csv = File(records)
            /\ Len(records) = Len(job_files))

\* C16, the part that holds: with a timeout configured every job that was
\* started ends and main reaches its end; the table is written at most
\* once, after the last job, with every record.
C16_TerminatesWrittenOrNot ==
    /\ (run_pc \in {"loop", "running"} /\ args.max_time # 0)
            ~> (run_pc \in {"done", "crashed"} /\ Len(outcomes) = Len(job_files))
    /\ [][records_csv' # records_csv =>
            /\ ~records_csv.written
            /\ Len(outcomes) = Len(job_files)
            /\ records_csv' = File(records)
            /\ Len(records) = Len(job_files)
            /\ run_pc' = "done"]_vars

\* a batch with a timeout whose jobs all ended without the output directory
\* having been made, so that the table could not be written
C16_TableLost ==
    /\ run_pc = "crashed"
    /\ args.max_time # 0
    /\ Len(job_files) >= 2
    /\ Len(records) = Len(job_files)
    /\ ~records_csv.written
----------------------------------------------------------------------------
(* Claims on the merge of the metrics into a row (SpecAgg) *)

\* the joined row AggRow turns into a Summary Row in this step
row_merged == Len(final_rows') = Len(final_rows) + 1
joined_row == df_merged[agg_idx + 1]
summary_row == final_rows'[Len(final_rows')]

\* C17: when the metrics are merged into a joined row, every Run Record
\* field and every experiment column of the row keeps its value, whatever
\* the result documents hold.
C17_InputColumnsPreserved ==
    [][row_merged =>
        \A col \in DOMAIN joined_row : summary_row[col] = joined_row[col]]_vars

\* C17, the part that holds: the columns that no metric key is named like
\* keep their value, and no column is removed.
C17_OtherColumnsPreserved ==
    [][row_merged =>
        /\ DOMAIN joined_row \subseteq DOMAIN summary_row
        /\ \A col \in DOMAIN joined_row :
            (\A w \in key_writes' : w[2] # col)
                => summary_row[col] = joined_row[col]]_vars
----------------------------------------------------------------------------
(* Claims on the job identifier of the Aggregator (SpecFn) *)

\* C18: for every replicate document the Replicator names (source extension
\* .yaml or .yml), the job identifier the Aggregator derives from the file
\* name is the file name without its final extension, the stem under which
\* the tool writes the result folder.
C18_JobIdIsStem ==
    (fn_pc = "applied" /\ fn_src.kind = "replicate")
        => fn_out.job = stem_of(fn_name)

\* C18, the part that holds: the identifier is the stem for the replicates
\* of a .yaml document whose name holds .yaml nowhere else.
C18_JobIdIsStemOfYaml ==
    (/\ fn_pc = "applied"
     /\ fn_src.kind = "replicate"
     /\ endswith(fn_name, S_yaml)
     /\ \A i \in 1..(Len(fn_name) - Len(S_yaml)) : ~At(fn_name, i, S_yaml))
        => fn_out.job = stem_of(fn_name)

\* a replicate of a .yml document, whose identifier keeps the extension
C18_YmlKeepsExtension ==
    /\ fn_pc = "applied"
    /\ fn_src.kind = "replicate"
    /\ endswith(fn_name, S_yml)
    /\ fn_out.job = fn_name
    /\ fn_out.job # stem_of(fn_name)
----------------------------------------------------------------------------
(* Claims on the order of the stages (SpecPipe) *)

\* a stage has exited with a status other than zero
exited_nonzero(pc) == pc = "crashed"
exited_zero(pc) == pc = "done"

C19_StagesInOrder ==
    /\ run_pc # "off" => exited_zero(enc_pc)
    /\ agg_pc # "off" => exited_zero(enc_pc) /\ exited_zero(run_pc)
    /\ wrap_pc = "failed" <=>
            \/ exited_nonzero(enc_pc) /\ wrap_pc \notin {"in_write_yamls"}
            \/ exited_nonzero(run_pc) /\ wrap_pc \notin {"in_run_boltz"}
            \/ exited_nonzero(agg_pc) /\ wrap_pc \notin {"in_aggregate_job"}
    /\ wrap_pc = "done" =>
            exited_zero(enc_pc) /\ exited_zero(run_pc) /\ exited_zero(agg_pc)

\* C19: boltz_wrapper runs write_yamls, run_boltz and aggregate_job in this
\* order: a stage is started only when the stage before it has exited with
\* status zero, each stage is started at most once, and once a stage has
\* exited with another status the wrapper has failed and nothing is started
\* any more.
C19_StopAtFirstFailure ==
    /\ []C19_StagesInOrder
    /\ [][/\ wrap_pc = "failed" =>
                enc_pc' = enc_pc /\ run_pc' = run_pc /\ agg_pc' = agg_pc
          /\ (enc_pc # "off" => enc_pc' # "start")
          /\ (run_pc # "off" => run_pc' # "idle")
          /\ (agg_pc # "off" => agg_pc' # "start")]_vars

\* the wrapper has stopped after run_boltz, which had run two jobs and then
\* failed; the aggregator was never started
C19_Witness ==
    /\ wrap_pc = "failed"
    /\ exited_zero(enc_pc)
    /\ exited_nonzero(run_pc)
    /\ Len(records) >= 2
    /\ agg_pc = "off"
----------------------------------------------------------------------------
(* Claims on the number of documents (SpecEnc) *)

\* C20: after write_yamls has handled a table of R rows, the output folder
\* holds R distinct documents and, for every row, the document named by the
\* row's yaml_file value holds the specification built from that row.
C20_OneDocumentPerRow ==
    (enc_pc = "done" /\ input_csv.written) =>
        /\ Cardinality(Files(input_dir)) = Len(input_csv.rows)
        /\ \A k \in 1..Len(input_csv.rows) :
                input_dir[yaml_csv.rows[k][K_yaml_file]]
                    = process_row(input_csv.rows[k])

\* C20, the part that holds: a row whose file name no other row of the
\* table has is described by its own document, and the folder holds one
\* document per distinct file name.
C20_OneDocumentPerName ==
    (enc_pc = "done" /\ input_csv.written) =>
        LET name(k) == yaml_csv.rows[k][K_yaml_file]
            rows == 1..Len(input_csv.rows)
        IN  /\ Files(input_dir) = {name(k) : k \in rows}
            /\ \A k \in rows :
                (\A j \in rows \ {k} : name(j) # name(k))
                    => input_dir[name(k)] = process_row(input_csv.rows[k])

\* two rows with the fold name a: one document, that of the second row
C20_Overwritten ==
    /\ enc_pc = "done"
    /\ input_csv.rows = <<RowValid, RowSameName>>
    /\ Cardinality(Files(input_dir)) = 1
    /\ input_dir[yaml_csv.rows[1][K_yaml_file]] = process_row(RowSameName)
----------------------------------------------------------------------------
(* Claims on the fallback file name (SpecEnc) *)

unnamed(row) == blank(row[K_foldname])

\* "_".join of the id fields of the entities of a document, in its order
joined_ids(doc) ==
    join_underscore([j \in 1..Len(entities_of(doc)) |->
                        entities_of(doc)[j].data[F_id]])

\* C21: the file name of a row without foldname is the underscore-join of
\* the id fields of exactly the entities of the row's document, in document
\* order, also when a lower-numbered entity was skipped for its empty type.
C21_FallbackFromRetained ==
    (row_written /\ unnamed(last_row)) =>
        yaml_file_names[enc_idx] = joined_ids(last_document) \o S_yaml

\* C21, the part that holds: the name is built from the retained entities
\* when these are the entities 1..n of the row, each with a single chain.
C21_FallbackWithoutGap ==
    (/\ row_written
     /\ unnamed(last_row)
     /\ \A j \in 1..Len(typed_numbers(last_row)) :
            typed_numbers(last_row)[j] = j)
        => yaml_file_names[enc_idx] = joined_ids(last_document) \o S_yaml

\* the document holds the entity with id B only and is named A.yaml, after
\* the id cell of the skipped first entity
C21_NamedAfterSkipped ==
    /\ row_written
    /\ last_row = RowUnnamedGap
    /\ joined_ids(last_document) = <<"B">>
    /\ yaml_file_names[enc_idx] = <<"A">> \o S_yaml
----------------------------------------------------------------------------
(* Claims on result documents that do not parse (SpecAgg) *)

\* the result folder of the joined row AggRow handles in this step
folder_of(row) == predictions[job_id_of(row[K_filename])]
has_folder(row) ==
    /\ ~isna(row[K_filename])
    /\ job_id_of(row[K_filename]) \in DOMAIN predictions

\* C22: a confidence or affinity document that cannot be parsed never
\* aborts the aggregation: the row loop never ends main, whatever the
\* documents of a job hold.
C22_MalformedNeverAborts ==
    [][agg_pc = "rows" => agg_pc' # "crashed"]_vars

\* C22, the part that holds: a row whose affinity document does not parse,
\* and whose confidence documents do, still gives its Summary Row, with
\* the confidence fields and without any field of the affinity document.
C22_AffinityNeverAborts ==
    [][(/\ agg_pc = "rows"
        /\ agg_idx < Len(df_merged)
        /\ has_folder(joined_row)
        /\ LET folder == folder_of(joined_row)
               job_id == job_id_of(joined_row[K_filename])
           IN  /\ affinity_name(job_id) \in DOMAIN folder
               /\ folder[affinity_name(job_id)].kind # "dict"
               /\ \A f \in confidence_files(folder, job_id) :
                        folder[f].kind = "dict")
        => /\ agg_pc' = "rows"
           /\ row_merged
           /\ \A w \in row_writes(folder_of(joined_row),
                                  job_id_of(joined_row[K_filename])) :
                    w[2] \in DOMAIN summary_row
           /\ DOMAIN summary_row =
                DOMAIN joined_row
                    \cup {w[2] : w \in row_writes(folder_of(joined_row),
                                        job_id_of(joined_row[K_filename]))}]_vars

\* main has ended in the row loop on a confidence document that does not
\* parse, with rows of the joined table left and no summary table
C22_AbortedOnConfidence ==
    /\ agg_pc = "crashed"
    /\ agg_idx >= 1
    /\ has_folder(df_merged[agg_idx])
    /\ \E f \in DOMAIN folder_of(df_merged[agg_idx]) :
            folder_of(df_merged[agg_idx])[f] = Malformed
    /\ agg_idx < Len(df_merged)
    /\ ~summary_csv.written

\* a Summary Row written for a job whose affinity document does not parse
C22_AffinitySkipped ==
    /\ agg_pc = "rows"
    /\ agg_idx >= 1
    /\ has_folder(df_merged[agg_idx])
    /\ folder_of(df_merged[agg_idx]) = FolderBadAffinity(N_b_rep1)
    /\ final_rows # <<>>
    /\ K_ptm \o S_model \o <<"0">> \in DOMAIN final_rows[Len(final_rows)]

====
